---- MODULE Spec2Model ----
(***************************************************************************)
(* The ESP32 voice-assistant relay: the three HTTP handlers (POST query,   *)
(* POST binary audio, GET/DELETE response), the request validators, the    *)
(* transcription and generation adapters and the state-store adapter over  *)
(* the key-value store, as a state machine of concurrent handler           *)
(* invocations.                                                            *)
(*                                                                         *)
(* Identifiers and texts are sequences of one-character strings.  Audio    *)
(* payloads are hundreds of kilobytes long; a base64 string is kept        *)
(* run-length encoded, as a sequence of runs [c |-> char, n |-> count],    *)
(* and a binary buffer by its length in bytes.                             *)
(***************************************************************************)
EXTENDS Integers, Sequences, FiniteSets, TLC

(* ------------------------------ bounds -------------------------------- *)

\* Handler invocations in one behaviour (numbered in arrival order).
NumProcs == 3
\* Largest value of the wall clock Date.now().
MaxClock == 2
\* State-store operations that throw in one behaviour.
MaxStoreFailures == 1
\* invocations of a behaviour that draws its requests from the wide sample sets
NumInputProcs == 2
\* Invocations in a behaviour of a deployment with variables missing.
NumConfigProcs == 2

(* ------------------------- program constants -------------------------- *)

MAX_REQUEST_ID_LENGTH == 64
MAX_QUERY_LENGTH == 1000
MAX_AUDIO_SIZE_BYTES == 200 * 1024
MAX_AUDIO_SIZE == 2 * 1024 * 1024

(* ----------------------------- JS values ------------------------------ *)

JsUndefined == [t |-> "undefined", s |-> <<>>]
JsNull == [t |-> "null", s |-> <<>>]
Str(s) == [t |-> "string", s |-> s]
Num(n) == [t |-> "number", s |-> <<n>>]
Bool(b) == [t |-> "boolean", s |-> <<IF b THEN "true" ELSE "false">>]

\* JavaScript truthiness of a value (!v is ~Truthy(v)); a number here is non-zero.
Truthy(v) ==
    \/ v.t = "string" /\ v.s # <<>>
    \/ v.t = "number"
    \/ v.t = "buffer"

Rep(c, n) == [i \in 1..n |-> c]

Lower == {"a","b","c","d","e","f","g","h","i","j","k","l","m",
          "n","o","p","q","r","s","t","u","v","w","x","y","z"}
Upper == {"A","B","C","D","E","F","G","H","I","J","K","L","M",
          "N","O","P","Q","R","S","T","U","V","W","X","Y","Z"}
Digit == {"0","1","2","3","4","5","6","7","8","9"}
Whitespace == {" ", "\n", "\t"}

\* The identifier pattern with the dot and the slash let through.
TestIdRegex_AllowsPath(s) ==
    /\ Len(s) >= 1
    /\ \A i \in 1..Len(s) :
          s[i] \in Lower \cup Upper \cup Digit \cup {"_", "-", ".", "/"}

\* /^[a-zA-Z0-9_-]+$/.test(s)
TestIdRegex(s) ==
    /\ Len(s) >= 1
    /\ \A i \in 1..Len(s) : s[i] \in Lower \cup Upper \cup Digit \cup {"_", "-"}

\* String.prototype.trim
RECURSIVE TrimLeft(_)
TrimLeft(s) ==
    IF s # <<>> /\ Head(s) \in Whitespace THEN TrimLeft(Tail(s)) ELSE s

RECURSIVE TrimRight(_)
TrimRight(s) ==
    IF s # <<>> /\ s[Len(s)] \in Whitespace
    THEN TrimRight(SubSeq(s, 1, Len(s) - 1)) ELSE s

Trim(s) == TrimRight(TrimLeft(s))

(* ------------------------- run-length strings ------------------------- *)

RECURSIVE RunLen(_)
RunLen(r) == IF r = <<>> THEN 0 ELSE Head(r).n + RunLen(Tail(r))

Base64Chars == Lower \cup Upper \cup Digit \cup {"+", "/"}

\* /^[A-Za-z0-9+/]*={0,2}$/.test(r)
TestBase64Regex(r) ==
    LET k == Len(r)
        padded == k > 0 /\ r[k].c = "="
        body == IF padded THEN k - 1 ELSE k
    IN  /\ \A i \in 1..body : r[i].c \in Base64Chars
        /\ padded => r[k].n <= 2

\* Buffer.prototype.toString('base64') of a buffer of n bytes: 4 characters for
\* every 3 bytes, the last group padded with '='.
BufferToBase64(n) ==
    LET pad == (3 - (n % 3)) % 3
        len == 4 * ((n + 2) \div 3)
    IN  IF n = 0 THEN <<>>
        ELSE IF pad = 0 THEN << [c |-> "A", n |-> len] >>
        ELSE << [c |-> "A", n |-> len - pad], [c |-> "=", n |-> pad] >>

(* -------------------------- request validation ------------------------ *)

Invalid(msg) == [valid |-> FALSE, error |-> msg, inputType |-> "none"]
Valid(type) == [valid |-> TRUE, error |-> "", inputType |-> type]

\* whisperService.validateAudioData
validateAudioData(audioBase64) ==
    IF ~Truthy(audioBase64) THEN Invalid("Audio data is required")
    ELSE IF audioBase64.t # "string" THEN Invalid("Audio must be a base64 string")
    ELSE IF RunLen(audioBase64.s) > MAX_AUDIO_SIZE_BYTES
        THEN Invalid("Audio too large. Max 200KB allowed")
    ELSE IF ~TestBase64Regex(audioBase64.s) THEN Invalid("Invalid base64 encoding")
    ELSE Valid("audio")

\* api/query.js validateRequest
validateRequest(body) ==
    IF body.t # "object" THEN Invalid("Request body is required")
    ELSE IF ~Truthy(body.request_id) \/ body.request_id.t # "string"
        THEN Invalid("request_id is required and must be a string")
    ELSE IF ~TestIdRegex(body.request_id.s)
        THEN Invalid("request_id contains invalid characters")
    ELSE IF Len(body.request_id.s) > MAX_REQUEST_ID_LENGTH
        THEN Invalid("request_id must be 64 characters or less")
    ELSE IF Truthy(body.audio)
        THEN (IF ~validateAudioData(body.audio).valid
              THEN Invalid(validateAudioData(body.audio).error)
              ELSE Valid("audio"))
    ELSE IF ~Truthy(body.text) \/ body.text.t # "string"
        THEN Invalid("Either text or audio is required")
    ELSE IF Len(Trim(body.text.s)) = 0 THEN Invalid("text cannot be empty")
    ELSE IF Len(body.text.s) > MAX_QUERY_LENGTH
        THEN Invalid("text must be 1000 characters or less")
    ELSE Valid("text")

\* api/response.js validateRequestId
validateRequestId(requestId) ==
    IF ~Truthy(requestId) \/ requestId.t # "string"
        THEN Invalid("request_id query parameter is required")
    ELSE IF ~TestIdRegex(requestId.s)
        THEN Invalid("request_id contains invalid characters")
    ELSE IF Len(requestId.s) > MAX_REQUEST_ID_LENGTH
        THEN Invalid("request_id must be 64 characters or less")
    ELSE Valid("id")

\* What a validator of utils/validator.js returns.
Result(valid, error) == [valid |-> valid, error |-> error]

\* utils/validator.js validateRequestId
utilsValidateRequestId(requestId) ==
    IF ~Truthy(requestId) \/ requestId.t # "string"
        THEN Result(FALSE, "request_id is required")
    ELSE IF Len(Trim(requestId.s)) = 0 THEN Result(FALSE, "request_id is required")
    ELSE IF Len(Trim(requestId.s)) > MAX_REQUEST_ID_LENGTH
        THEN Result(FALSE, "request_id must be 64 characters or less")
    ELSE IF ~TestIdRegex(Trim(requestId.s))
        THEN Result(FALSE, "request_id contains invalid characters")
    ELSE Result(TRUE, "")

\* utils/validator.js validateQueryText
validateQueryText(text) ==
    IF ~Truthy(text) \/ text.t # "string" THEN Result(FALSE, "text is required")
    ELSE IF Len(Trim(text.s)) = 0 THEN Result(FALSE, "text is required")
    ELSE IF Len(Trim(text.s)) > MAX_QUERY_LENGTH
        THEN Result(FALSE, "text exceeds maximum length")
    ELSE Result(TRUE, "")

\* api/audio.js: the checks of the X-Request-ID header and of the binary body.
validateAudioUpload(request_id, audioBuffer) ==
    IF ~Truthy(request_id) \/ request_id.t # "string" \/ ~TestIdRegex(request_id.s)
        THEN Invalid("Valid X-Request-ID header required")
    ELSE IF ~Truthy(audioBuffer) \/ audioBuffer.s[1] = 0
        THEN Invalid("Audio data required")
    ELSE IF audioBuffer.s[1] > MAX_AUDIO_SIZE
        THEN Invalid("Audio too large (max 2MB)")
    ELSE Valid("audio")

(* -------------------------- state-store adapter ----------------------- *)
(* The store maps each key that holds a record to the record, a map from  *)
(* field names to values.                                                  *)

\* firebase Reference.set / remove / update / once('value') on responses/<id>.
\* The store keeps no null: a field set to null (text is the one field the
\* adapter ever sets to null) is not in the stored record.
\* A set at the root of the store: the record of id is all that is left.
RefSet_AtRoot(st, id, rec) ==
    LET kept == {f \in DOMAIN rec : f = "text" => rec[f] # JsNull}
    IN  [k \in {id} |-> [f \in kept |-> rec[f]]]

RefSet(st, id, rec) ==
    LET kept == {f \in DOMAIN rec : f = "text" => rec[f] # JsNull}
    IN  [k \in DOMAIN st \cup {id} |->
            IF k = id THEN [f \in kept |-> rec[f]] ELSE st[k]]
RefRemove(st, id) == [k \in DOMAIN st \ {id} |-> st[k]]
RefUpdate(st, id, fields) ==
    LET old == IF id \in DOMAIN st THEN st[id] ELSE << >>
        new == [f \in DOMAIN old \cup DOMAIN fields |->
                   IF f \in DOMAIN fields THEN fields[f] ELSE old[f]]
    IN  RefSet(st, id, new)
SnapshotExists(st, id) == id \in DOMAIN st

\* dbService.savePendingResponse: the record ref.set writes, t being Date.now()
savePendingResponse(st, requestId, t) ==
    RefSet(st, requestId,
           [text |-> JsNull, status |-> "pending", timestamp |-> t, consumed |-> FALSE])

\* saveResponse keeping the timestamp of the record it replaces.
saveResponse_KeepsTimestamp(st, requestId, text, t) ==
    RefSet(st, requestId,
           [text |-> text, status |-> "completed",
            timestamp |-> IF requestId \in DOMAIN st /\ "timestamp" \in DOMAIN st[requestId]
                          THEN st[requestId].timestamp ELSE t,
            consumed |-> FALSE])

\* dbService.saveResponse
saveResponse(st, requestId, text, t) ==
    RefSet(st, requestId,
           [text |-> text, status |-> "completed", timestamp |-> t, consumed |-> FALSE])

\* dbService.saveErrorResponse
saveErrorResponse(st, requestId, errorMessage, t) ==
    RefSet(st, requestId,
           [text |-> errorMessage, status |-> "error", timestamp |-> t, consumed |-> FALSE])

\* markAsConsumed with ref.set in place of ref.update: the record is replaced.
markAsConsumed_Replaces(st, requestId, t) ==
    RefSet(st, requestId, [consumed |-> TRUE, consumedAt |-> t])

\* dbService.markAsConsumed
markAsConsumed(st, requestId, t) ==
    RefUpdate(st, requestId, [consumed |-> TRUE, consumedAt |-> t])

\* A field of a stored record as JavaScript reads it: undefined when missing.
StatusOf(data) == IF "status" \in DOMAIN data THEN data.status ELSE "undefined"
TextOf(data) == IF "text" \in DOMAIN data THEN data.text ELSE JsUndefined
TimestampOf(data) == IF "timestamp" \in DOMAIN data THEN Num(data.timestamp) ELSE JsUndefined
ConsumedOf(data) == IF "consumed" \in DOMAIN data THEN Bool(data.consumed) ELSE JsUndefined

\* dbService.getResponse: null when the snapshot does not exist
getResponse(st, requestId) ==
    IF ~SnapshotExists(st, requestId) THEN JsNull
    ELSE [t |-> "object",
          requestId |-> requestId,
          text |-> TextOf(st[requestId]),
          status |-> StatusOf(st[requestId]),
          timestamp |-> TimestampOf(st[requestId]),
          consumed |-> ConsumedOf(st[requestId])]

(* --------------------------- generation adapter ----------------------- *)

MAX_RESPONSE_LENGTH == 1000

\* The backtick character (the one character written here as a word).
Backtick == "backtick"

\* The elements of s at the indices in keep, in order.
Pick(s, keep) ==
    LET idx == SelectSeq([i \in 1..Len(s) |-> i], LAMBDA i : i \in keep)
    IN  [k \in 1..Len(idx) |-> s[idx[k]]]

\* First and last index of the maximal stretch around i whose characters are in C.
StretchStart(s, i, C) ==
    CHOOSE j \in 1..i : (\A k \in j..i : s[k] \in C) /\ (j = 1 \/ s[j - 1] \notin C)
StretchEnd(s, i, C) ==
    CHOOSE j \in i..Len(s) :
        (\A k \in i..j : s[k] \in C) /\ (j = Len(s) \/ s[j + 1] \notin C)

\* The least index from position from on at which s holds character c; 0 when there is none.
IndexOf(s, c, from) ==
    IF \E i \in from..Len(s) : s[i] = c
    THEN CHOOSE i \in from..Len(s) : s[i] = c /\ \A k \in from..(i - 1) : s[k] # c
    ELSE 0

\* .replace(/\*\*/g, ''): the non-overlapping pairs of each run of stars go.
RemoveBold(s) ==
    Pick(s, {i \in 1..Len(s) :
        \/ s[i] # "*"
        \/ LET a == StretchStart(s, i, {"*"})
               b == StretchEnd(s, i, {"*"})
           IN  (i - a) >= 2 * ((b - a + 1) \div 2)})

\* .replace(/\*/g, '')
RemoveStars(s) == SelectSeq(s, LAMBDA c : c # "*")

\* .replace(/_/g, ' ')
UnderscoresToSpaces(s) == [i \in 1..Len(s) |-> IF s[i] = "_" THEN " " ELSE s[i]]

\* .replace(/#{1,6}\s*/g, ''): every '#' goes, and the white space that follows one.
RemoveHeaders(s) ==
    Pick(s, {i \in 1..Len(s) :
        /\ s[i] # "#"
        /\ ~(s[i] \in Whitespace
             /\ StretchStart(s, i, Whitespace) > 1
             /\ s[StretchStart(s, i, Whitespace) - 1] = "#")})

\* Whether /\[([^\]]+)\]\([^)]+\)/ matches at index i, and where its parts end.
LinkClose(s, i) == IndexOf(s, "]", i + 1)
LinkEnd(s, i) == IndexOf(s, ")", LinkClose(s, i) + 2)
LinkAt(s, i) ==
    /\ s[i] = "["
    /\ LinkClose(s, i) >= i + 2
    /\ LinkClose(s, i) + 1 <= Len(s)
    /\ s[LinkClose(s, i) + 1] = "("
    /\ LinkEnd(s, i) >= LinkClose(s, i) + 3

\* .replace(/\[([^\]]+)\]\([^)]+\)/g, '$1')
RECURSIVE ReplaceLinks(_)
ReplaceLinks(s) ==
    IF \E i \in 1..Len(s) : LinkAt(s, i)
    THEN LET i == CHOOSE x \in 1..Len(s) :
                      LinkAt(s, x) /\ \A y \in 1..(x - 1) : ~LinkAt(s, y)
         IN  SubSeq(s, 1, i - 1) \o SubSeq(s, i + 1, LinkClose(s, i) - 1)
                 \o ReplaceLinks(SubSeq(s, LinkEnd(s, i) + 1, Len(s)))
    ELSE s

\* Whether s holds a code fence (three backticks) at index i.
FenceAt(s, i) ==
    i + 2 <= Len(s) /\ s[i] = Backtick /\ s[i + 1] = Backtick /\ s[i + 2] = Backtick

\* .replace(/<fence>[\s\S]*?<fence>/g, ''): from a fence to the nearest closing fence.
RECURSIVE RemoveCodeBlocks(_)
RemoveCodeBlocks(s) ==
    IF \E i \in 1..Len(s) : FenceAt(s, i) /\ \E j \in (i + 3)..Len(s) : FenceAt(s, j)
    THEN LET i == CHOOSE x \in 1..Len(s) :
                      FenceAt(s, x) /\ \A y \in 1..(x - 1) : ~FenceAt(s, y)
             j == CHOOSE x \in (i + 3)..Len(s) :
                      FenceAt(s, x) /\ \A y \in (i + 3)..(x - 1) : ~FenceAt(s, y)
         IN  SubSeq(s, 1, i - 1) \o RemoveCodeBlocks(SubSeq(s, j + 3, Len(s)))
    ELSE s

\* Whether a backtick, one or more other characters and a backtick start at index i.
InlineCodeAt(s, i) ==
    /\ i + 2 <= Len(s)
    /\ s[i] = Backtick
    /\ s[i + 1] # Backtick
    /\ IndexOf(s, Backtick, i + 2) > 0

\* .replace(/<backtick>([^<backtick>]+)<backtick>/g, '$1')
RECURSIVE ReplaceInlineCode(_)
ReplaceInlineCode(s) ==
    IF \E i \in 1..Len(s) : InlineCodeAt(s, i)
    THEN LET i == CHOOSE x \in 1..Len(s) :
                      InlineCodeAt(s, x) /\ \A y \in 1..(x - 1) : ~InlineCodeAt(s, y)
             j == IndexOf(s, Backtick, i + 2)
         IN  SubSeq(s, 1, i - 1) \o SubSeq(s, i + 1, j - 1)
                 \o ReplaceInlineCode(SubSeq(s, j + 1, Len(s)))
    ELSE s

\* .replace(/\n{3,}/g, '\n\n')
CollapseNewlines(s) ==
    Pick(s, {i \in 1..Len(s) :
        \/ s[i] # "\n"
        \/ LET a == StretchStart(s, i, {"\n"})
               b == StretchEnd(s, i, {"\n"})
           IN  (b - a + 1) < 3 \/ (i - a) < 2})

\* .replace(/\s+/g, ' ')
CollapseWhitespace(s) ==
    LET kept == Pick(s, {i \in 1..Len(s) :
                    s[i] \notin Whitespace \/ i = 1 \/ s[i - 1] \notin Whitespace})
    IN  [i \in 1..Len(kept) |-> IF kept[i] \in Whitespace THEN " " ELSE kept[i]]

\* String.prototype.lastIndexOf for one character: 0-based, -1 when there is none.
LastIndexOf(s, c) ==
    IF \E i \in 1..Len(s) : s[i] = c
    THEN (CHOOSE i \in 1..Len(s) : s[i] = c /\ \A k \in (i + 1)..Len(s) : s[k] # c) - 1
    ELSE 0 - 1

Max3(a, b, c) ==
    IF a >= b /\ a >= c THEN a ELSE IF b >= c THEN b ELSE c

\* The truncation with a sentence end at the midpoint itself accepted (>= for >
\* in line 154).
Truncate_AtMidpoint(cleaned) ==
    IF Len(cleaned) > MAX_RESPONSE_LENGTH
    THEN LET cut == SubSeq(cleaned, 1, MAX_RESPONSE_LENGTH)
             lastSentenceEnd == Max3(LastIndexOf(cut, "."), LastIndexOf(cut, "?"),
                                     LastIndexOf(cut, "!"))
         IN  IF 2 * lastSentenceEnd >= MAX_RESPONSE_LENGTH
             THEN SubSeq(cut, 1, lastSentenceEnd + 1)
             ELSE cut \o <<".", ".", ".">>
    ELSE cleaned

\* The truncation of cleanResponse: cut at MAX_RESPONSE_LENGTH, then back to the
\* last sentence end past the midpoint, else append an ellipsis.
Truncate(cleaned) ==
    IF Len(cleaned) > MAX_RESPONSE_LENGTH
    THEN LET cut == SubSeq(cleaned, 1, MAX_RESPONSE_LENGTH)
             lastSentenceEnd == Max3(LastIndexOf(cut, "."), LastIndexOf(cut, "?"),
                                     LastIndexOf(cut, "!"))
         IN  IF 2 * lastSentenceEnd > MAX_RESPONSE_LENGTH
             THEN SubSeq(cut, 1, lastSentenceEnd + 1)
             ELSE cut \o <<".", ".", ".">>
    ELSE cleaned

\* cleanResponse up to its truncation: the chain of replacements and the trim.
StripMarkdown(text) ==
    Trim(CollapseWhitespace(CollapseNewlines(ReplaceInlineCode(
        RemoveCodeBlocks(ReplaceLinks(RemoveHeaders(UnderscoresToSpaces(
            RemoveStars(RemoveBold(text))))))))))

\* geminiService.cleanResponse
cleanResponse(text) == Truncate(StripMarkdown(text))

(* Error messages are sequences of phrases; String.prototype.includes asks *)
(* for one of them.                                                        *)
Includes(message, phrase) == \E i \in 1..Len(message) : message[i] = phrase

Return(value) == [ok |-> TRUE, value |-> value]
Throw(message) == [ok |-> FALSE, value |-> message]

\* geminiService.generateResponse, its catch block: the error thrown to the caller
\* for an error with the given message.
GeminiRethrow(message) ==
    IF Includes(message, "timed out")
        THEN Throw(<<"AI service is taking too long. Please try again.">>)
    ELSE IF Includes(message, "SAFETY")
        THEN Throw(<<"Request was blocked for safety reasons.">>)
    ELSE IF Includes(message, "quota") \/ Includes(message, "429")
        THEN Throw(<<"AI service rate limit reached. Please wait a moment.">>)
    ELSE Throw(<<"AI processing failed:">> \o message)

\* The rejection of the timer of generateResponse.
TimeoutMessage == <<"Gemini request", "timed out">>

\* geminiService.generateResponse from the point the race settles: settled is the
\* provider's result [ok |-> TRUE, value |-> response text], the provider's
\* rejection or the timer's, [ok |-> FALSE, value |-> message].
generateResponseSettled(settled) ==
    IF ~settled.ok THEN GeminiRethrow(settled.value)
    ELSE IF settled.value = <<>> \/ Trim(settled.value) = <<>>
        THEN GeminiRethrow(<<"Gemini returned empty response">>)
    ELSE Return(cleanResponse(settled.value))

(* -------------------------- transcription adapter --------------------- *)

\* whisperService.transcribeAudio, its catch block; code is the error's code.
WhisperRethrow(message, code) ==
    IF Includes(message, "Invalid file format")
        THEN Throw(<<"Invalid audio format. Please use WAV format.">>)
    ELSE IF Includes(message, "too short")
        THEN Throw(<<"Audio too short. Please speak longer.">>)
    ELSE IF code = "ECONNRESET" \/ Includes(message, "timeout")
        THEN Throw(<<"Transcription service timed out. Please try again.">>)
    ELSE IF Includes(message, "rate_limit")
        THEN Throw(<<"Rate limit reached. Please wait a moment.">>)
    ELSE Throw(<<"Transcription failed:">> \o message)

\* whisperService.transcribeAudio from the point the provider call settles:
\* [ok |-> TRUE, value |-> text] or [ok |-> FALSE, value |-> message, code |-> code].
transcribeAudioSettled(settled) ==
    IF ~settled.ok THEN WhisperRethrow(settled.value, settled.code)
    ELSE IF Trim(settled.value) = <<>>
        THEN WhisperRethrow(<<"No speech detected in audio">>, "")
    ELSE Return(Trim(settled.value))

\* The size check of transcribeAudio, made before the provider is called.
TranscribeRejects(audioBase64) ==
    IF ~Truthy(audioBase64) \/ audioBase64.t # "string"
        THEN Throw(<<"Audio data is required">>)
    ELSE IF RunLen(audioBase64.s) > MAX_AUDIO_SIZE_BYTES
        THEN Throw(<<"Audio too large. Max size: 200KB">>)
    ELSE Return(<<>>)

(* ------------------------------ inputs -------------------------------- *)

IdA == <<"a", "-", "1">>
IdB == Rep("b", MAX_REQUEST_ID_LENGTH)
IdLong == Rep("b", MAX_REQUEST_ID_LENGTH + 1)
IdBad == <<".", ".", "/", "e", "t", "c">>

Hi == <<"h", "i">>
Buf(n) == [t |-> "buffer", s |-> <<n>>]
Runs(c, n) == Str(<< [c |-> c, n |-> n] >>)

Body(request_id, text, audio) ==
    [t |-> "object", request_id |-> request_id, text |-> text, audio |-> audio]
QueryReq(method, body) == [ep |-> "query", method |-> method, body |-> body]
AudioReq(method, id, body) ==
    [ep |-> "audio", method |-> method, headers |-> [xRequestId |-> id], body |-> body]
ResponseReq(method, id) ==
    [ep |-> "response", method |-> method, query |-> [request_id |-> id]]
\* Calls of validateRequestId and of validateQueryText of utils/validator.js,
\* with arguments of every kind; a padded string has blanks around it.
ValidatorCalls ==
    LET Padded(s) == <<" ">> \o s \o <<" ", "\n">>
        ids == { Str(IdA), Str(IdB), Str(IdLong), Str(IdBad), Str(Padded(IdA)),
                 Str(Padded(IdB)), Str(Padded(IdLong)), Str(<<"a", " ", "1">>),
                 Str(<< >>), Str(<<" ", " ">>), JsUndefined, JsNull, Num(7) }
        texts == { Str(Hi), Str(Padded(Hi)), Str(<<"h", " ", "i">>),
                   Str(Rep("x", MAX_QUERY_LENGTH)), Str(Rep("x", MAX_QUERY_LENGTH + 1)),
                   Str(Padded(Rep("x", MAX_QUERY_LENGTH))),
                   Str(Padded(Rep("x", MAX_QUERY_LENGTH - 3))), Str(<< >>),
                   Str(<<" ", "\t">>), JsUndefined, JsNull, Num(7) }
    IN  {[ep |-> "validator", fn |-> "validateRequestId", arg |-> a] : a \in ids}
            \cup {[ep |-> "validator", fn |-> "validateQueryText", arg |-> a] : a \in texts}

\* A call of dbService.markAsConsumed by a client acknowledging an answer.
ConsumeCall(requestId) == [ep |-> "consume", requestId |-> requestId]
NoRequest == [ep |-> "none"]

\* Requests to POST /api/query.
QueryRequests ==
    { QueryReq("POST", Body(Str(IdA), Str(Hi), JsUndefined)),
      QueryReq("POST", Body(Str(IdB), Str(Rep("x", MAX_QUERY_LENGTH)), JsUndefined)),
      QueryReq("POST", Body(Str(IdA), JsUndefined, Runs("A", MAX_AUDIO_SIZE_BYTES))),
      QueryReq("POST", JsUndefined),
      QueryReq("POST", Body(JsUndefined, Str(Hi), JsUndefined)),
      QueryReq("POST", Body(Str(IdBad), Str(Hi), JsUndefined)),
      QueryReq("POST", Body(Str(IdLong), Str(Hi), JsUndefined)),
      QueryReq("POST", Body(Str(IdA), JsUndefined, JsUndefined)),
      QueryReq("POST", Body(Str(IdA), Str(<<" ", " ">>), JsUndefined)),
      QueryReq("POST", Body(Str(IdA), Str(Rep("x", MAX_QUERY_LENGTH + 1)), JsUndefined)),
      QueryReq("POST", Body(Str(IdA), Str(Hi), Runs("A", MAX_AUDIO_SIZE_BYTES + 1))),
      QueryReq("POST", Body(Str(IdA), Str(Hi), Runs("@", 4))),
      QueryReq("GET", Body(Str(IdA), Str(Hi), JsUndefined)),
      QueryReq("OPTIONS", JsUndefined) }

\* Requests to POST /api/audio.
AudioRequests ==
    { AudioReq("POST", Str(IdA), Buf(6)),
      AudioReq("POST", Str(IdLong), Buf(6)),
      AudioReq("POST", Str(IdA), Buf(MAX_AUDIO_SIZE)),
      AudioReq("POST", Str(IdA), Buf(MAX_AUDIO_SIZE + 1)),
      AudioReq("POST", JsUndefined, Buf(6)),
      AudioReq("POST", Str(IdBad), Buf(6)),
      AudioReq("POST", Str(IdA), Buf(0)),
      AudioReq("POST", Str(IdA), JsUndefined),
      AudioReq("GET", Str(IdA), Buf(6)),
      AudioReq("OPTIONS", JsUndefined, JsUndefined) }

\* Requests to /api/response.
ResponseRequests ==
    { ResponseReq(m, id) : m \in {"GET", "DELETE"},
                           id \in {Str(IdA), Str(IdB), Str(IdLong), Str(IdBad), JsUndefined} }
    \cup { ResponseReq("POST", Str(IdA)), ResponseReq("OPTIONS", JsUndefined) }

\* What the transcription provider may settle with.
TranscriptionOutcomes ==
    { [ok |-> TRUE, value |-> Hi, code |-> ""],
      [ok |-> TRUE, value |-> <<" ">>, code |-> ""],
      [ok |-> FALSE, value |-> <<"Invalid file format">>, code |-> ""],
      [ok |-> FALSE, value |-> <<"audio is", "too short">>, code |-> ""],
      [ok |-> FALSE, value |-> <<"socket hang up">>, code |-> "ECONNRESET"],
      [ok |-> FALSE, value |-> <<"rate_limit", "exceeded">>, code |-> ""],
      [ok |-> FALSE, value |-> <<"401 Unauthorized">>, code |-> ""] }

\* What the generation provider may answer, and how its call may fail.
GenerationOutcomes ==
    { [ok |-> TRUE, value |-> <<"*", "*", "O", "k", ".", "*", "*">>],
      [ok |-> TRUE, value |-> <<" ">>],
      [ok |-> FALSE, value |-> <<"[GoogleGenerativeAI Error]", "SAFETY">>],
      [ok |-> FALSE, value |-> <<"[GoogleGenerativeAI Error]", "429", "quota">>],
      [ok |-> FALSE, value |-> <<"fetch failed">>] }

\* Requests to the root (health check) endpoint.
HealthReq(method) == [ep |-> "health", method |-> method]
HealthRequests == { HealthReq(m) : m \in {"GET", "POST", "DELETE", "OPTIONS"} }

\* Acknowledgments.
ConsumeCalls == { ConsumeCall(IdA), ConsumeCall(IdB) }

AllOutcomes == [transcription |-> TranscriptionOutcomes, generation |-> GenerationOutcomes]

\* The requests and provider outcomes of the behaviours in which invocations race.
CoreRequests ==
    { QueryReq("POST", Body(Str(IdA), Str(Hi), JsUndefined)),
      AudioReq("POST", Str(IdA), Buf(6)),
      ResponseReq("GET", Str(IdA)),
      ResponseReq("DELETE", Str(IdA)),
      ConsumeCall(IdA),
      HealthReq("GET") }
CoreOutcomes ==
    [transcription |-> { [ok |-> TRUE, value |-> Hi, code |-> ""],
                         [ok |-> FALSE, value |-> <<"Invalid file format">>, code |-> ""] },
     generation |-> { [ok |-> TRUE, value |-> <<"*", "*", "O", "k", ".", "*", "*">>],
                      [ok |-> FALSE, value |-> <<"[GoogleGenerativeAI Error]", "SAFETY">>] }]

\* A provider response of n characters, all "a" but for the characters that
\* marks gives for some of the (0-based) indices.
Answer(n, marks) == [i \in 1..n |-> IF (i - 1) \in DOMAIN marks THEN marks[i - 1] ELSE "a"]

\* Lengths around MAX_RESPONSE_LENGTH and indices around its midpoint and its end.
AnswerLengths ==
    {MAX_RESPONSE_LENGTH - 1, MAX_RESPONSE_LENGTH, MAX_RESPONSE_LENGTH + 1,
     MAX_RESPONSE_LENGTH + MAX_RESPONSE_LENGTH \div 2}
MarkIndices ==
    {0, MAX_RESPONSE_LENGTH \div 2 - 1, MAX_RESPONSE_LENGTH \div 2,
     MAX_RESPONSE_LENGTH \div 2 + 1, MAX_RESPONSE_LENGTH - 2, MAX_RESPONSE_LENGTH - 1,
     MAX_RESPONSE_LENGTH, MAX_RESPONSE_LENGTH + 1}
SentenceMarks == {".", "?", "!"}

\* Long provider responses: no sentence mark, one mark, two marks, a space at the
\* cut, and markdown that the cleaning removes before the length is taken.
LongAnswers ==
    {Answer(n, << >>) : n \in AnswerLengths}
    \cup {Answer(n, i :> c) : n \in AnswerLengths, i \in MarkIndices, c \in SentenceMarks}
    \cup {Answer(n, (i :> ".") @@ (j :> c)) :
             n \in {MAX_RESPONSE_LENGTH + 1},
             i \in {0, MAX_RESPONSE_LENGTH \div 2, MAX_RESPONSE_LENGTH \div 2 + 1},
             j \in {MAX_RESPONSE_LENGTH \div 2 + 2, MAX_RESPONSE_LENGTH - 1,
                    MAX_RESPONSE_LENGTH},
             c \in {"?", "!"}}
    \cup {Answer(MAX_RESPONSE_LENGTH + 1, (i :> " ")) :
             i \in {MAX_RESPONSE_LENGTH - 1, MAX_RESPONSE_LENGTH}}
    \cup {<<"*", "*">> \o Answer(n, i :> ".") \o <<"*", "*">> :
             n \in {MAX_RESPONSE_LENGTH, MAX_RESPONSE_LENGTH + 1},
             i \in {MAX_RESPONSE_LENGTH \div 2, MAX_RESPONSE_LENGTH - 1}}

\* One text query whose answer is long.
AnswerRequests == { QueryReq("POST", Body(Str(IdA), Str(Hi), JsUndefined)) }
\* The provider answers with a long text, or with nothing but markup or blanks.
AnswerOutcomes ==
    [transcription |-> CoreOutcomes.transcription,
     generation |-> CoreOutcomes.generation
                    \cup {[ok |-> TRUE, value |-> a] : a \in LongAnswers}
                    \cup {[ok |-> TRUE, value |-> a] :
                             a \in {<<"*", "*">>, <<"_", "_">>, <<"#", "#", " ">>,
                                    <<"*", " ", "*">>, <<" ", "\n">>, << >>}}]

(* ------------------------ configuration modules ----------------------- *)

\* The variables initializeFirebase requires, in the order it tests them.
requiredEnvVars ==
    <<"FIREBASE_PROJECT_ID", "FIREBASE_PRIVATE_KEY", "FIREBASE_CLIENT_EMAIL",
      "FIREBASE_DATABASE_URL">>
\* All required variables: the database's, the generation key, the transcription key.
EnvVars ==
    {requiredEnvVars[i] : i \in DOMAIN requiredEnvVars} \cup {"GEMINI_API_KEY", "GROQ_API_KEY"}

\* The process at its start with the variables in e set: every singleton is null.
NodeStarted(e) ==
    [env |-> e, database |-> 0, model |-> 0, groqClient |-> 0,
     constructed |-> [database |-> 0, model |-> 0, groqClient |-> 0]]

\* The outcome of an accessor: the instance it returned or the error it threw,
\* and the process afterwards.
Got(n, instance) == [ok |-> TRUE, value |-> instance, message |-> << >>, node |-> n]
Threw(n, message) == [ok |-> FALSE, value |-> 0, message |-> message, node |-> n]

\* The required variables that are not set, by their place in requiredEnvVars.
MissingEnvVars(n) == {i \in DOMAIN requiredEnvVars : requiredEnvVars[i] \notin n.env}

\* config/firebase.js initializeFirebase: the database of the existing app, an
\* error for the first missing variable, or a new app and its database.
initializeFirebase(n) ==
    IF n.constructed.database > 0 THEN Got(n, n.constructed.database)
    ELSE IF MissingEnvVars(n) # {}
        THEN Threw(n, <<"Missing required environment variable:",
                        requiredEnvVars[CHOOSE i \in MissingEnvVars(n) :
                                            \A j \in MissingEnvVars(n) : i <= j]>>)
    ELSE Got([n EXCEPT !.constructed.database = @ + 1], n.constructed.database + 1)

\* getDatabase with neither its own test of the singleton nor the test for an
\* existing app: every call makes a new app.
getDatabase_NoSingleton(n) ==
    IF MissingEnvVars(n) # {} THEN initializeFirebase(n)
    ELSE Got([n EXCEPT !.database = n.constructed.database + 1,
                       !.constructed.database = @ + 1], n.constructed.database + 1)

\* config/firebase.js getDatabase
getDatabase(n) ==
    IF n.database # 0 THEN Got(n, n.database)
    ELSE IF ~initializeFirebase(n).ok THEN initializeFirebase(n)
    ELSE Got([initializeFirebase(n).node EXCEPT !.database = initializeFirebase(n).value],
             initializeFirebase(n).value)

\* config/gemini.js getModel with initializeGemini
getModel(n) ==
    IF n.model # 0 THEN Got(n, n.model)
    ELSE IF "GEMINI_API_KEY" \notin n.env
        THEN Threw(n, <<"GEMINI_API_KEY environment variable is not set">>)
    ELSE Got([n EXCEPT !.model = n.constructed.model + 1,
                       !.constructed.model = @ + 1], n.constructed.model + 1)

\* config/whisper.js getGroqClient with initializeWhisper
getGroqClient(n) ==
    IF n.groqClient # 0 THEN Got(n, n.groqClient)
    ELSE IF "GROQ_API_KEY" \notin n.env
        THEN Threw(n, <<"GROQ_API_KEY environment variable is not set">>)
    ELSE Got([n EXCEPT !.groqClient = n.constructed.groqClient + 1,
                       !.constructed.groqClient = @ + 1], n.constructed.groqClient + 1)

\* The process after the accessor call that a logged event stands for: every
\* store operation starts with getRef, which calls getDatabase.
Access(n, event) ==
    IF event \in {"set:pending", "set:completed", "set:error", "once", "remove",
                  "update", "throw"}
        THEN getDatabase(n).node
    ELSE IF event = "getModel" THEN getModel(n).node
    ELSE IF event = "getGroqClient" THEN getGroqClient(n).node
    ELSE n

RECURSIVE Accessed(_, _)
Accessed(n, events) ==
    IF events = << >> THEN n ELSE Accessed(Access(n, Head(events)), Tail(events))

(* ------------------------------- state -------------------------------- *)

VARIABLES
    pc,        \* pc[p]: where invocation p is: "idle", the operation it awaits, "done"
    req,       \* req[p]: the HTTP request of invocation p
    loc,       \* loc[p]: the handler's local variables
    resp,      \* resp[p]: the HTTP response sent, NoReply before
    store,     \* the key-value store under responses/: key -> record
    now,       \* the wall clock, Date.now()
    failures,  \* how many state-store operations have thrown
    log,       \* log[p]: the store operations and adapter calls of p, in order
    traffic,   \* the kind of behaviour: which requests arrive, how providers settle
    writer,    \* history: writer[id] is the invocation whose set, update or remove
               \* was the last operation to change the record of id
    node       \* the Node.js process: process.env (the names of the variables that
               \* are set), the module-level singletons database, model and
               \* groqClient (0 for null, else the number of the instance), and
               \* as history how many instances of each were constructed

vars == <<pc, req, loc, resp, store, now, failures, log, traffic, writer, node>>

Procs == 1..NumProcs

Reply(code, body) == [code |-> code, body |-> body]
NoReply == [code |-> 0, body |-> << >>]
NoWrite == [status |-> "none", text |-> JsNull, timestamp |-> 0]
\* The promise Promise.race returns in generateResponse: whether it is settled,
\* by which contender, and the contenders that have not settled yet.
NoRace == [settled |-> FALSE, by |-> "none", open |-> {}]
StartRace == [settled |-> FALSE, by |-> "none", open |-> {"provider", "timer"}]

\* A promise that every settlement of a contender settles anew.
PromiseSettle_Overwrites(race, who) ==
    [settled |-> TRUE, by |-> who, open |-> race.open \ {who}]

\* A contender settles: the first one settles the race, a later one is ignored.
PromiseSettle(race, who) ==
    [settled |-> TRUE, by |-> IF race.settled THEN race.by ELSE who,
     open |-> race.open \ {who}]

\* The await on the race resumes generateResponse when the race has just been
\* settled, by the contender it is now settled by.
Resumes(race, settled) == settled.by # race.by

NoLocals ==
    [request_id |-> << >>, inputType |-> "none", queryText |-> << >>,
     audio |-> JsUndefined, transcription |-> JsNull, responseText |-> JsNull,
     race |-> NoRace, write |-> NoWrite, reply |-> NoReply]

\* The message of an error thrown by the store client.
StoreErrorMessage == <<"PERMISSION_DENIED">>

\* The values Date.now() may return: time may have advanced since the last reading.
ClockValues == {now} \cup (IF now < MaxClock THEN {now + 1} ELSE {})

\* The state of a fresh deployment that is to see the given traffic.
Fresh(kind) ==
    /\ pc = [p \in Procs |-> "idle"]
    /\ req = [p \in Procs |-> NoRequest]
    /\ traffic = kind
    /\ loc = [p \in Procs |-> NoLocals]
    /\ resp = [p \in Procs |-> NoReply]
    /\ store = << >>
    /\ now = 1
    /\ failures = 0
    /\ log = [p \in Procs |-> << >>]
    /\ writer = << >>
    /\ node \in {NodeStarted(e) : e \in IF kind = "config" THEN SUBSET EnvVars ELSE {EnvVars}}

\* Racing invocations: up to NumProcs requests drawn from CoreRequests, the
\* providers settling as CoreOutcomes has it.
Init == Fresh("core")

\* One or two invocations with requests drawn from the wide sample sets, valid
\* and invalid, the providers settling in every way the adapters tell apart.
InitInputs == Fresh("inputs")

\* One text query, the generation provider answering at length.
InitAnswers == Fresh("answers")

\* The validators of utils/validator.js applied to arguments of every kind.
InitValidators == Fresh("validators")

\* A deployment with any of the required environment variables missing or set.
InitConfig == Fresh("config")

\* The requests that may arrive and what the providers may settle with.
Requests(ep) ==
    IF traffic \in {"core", "config"} THEN {r \in CoreRequests : r.ep = ep}
    ELSE IF traffic = "answers" THEN {r \in AnswerRequests : r.ep = ep}
    ELSE IF ep = "query" THEN QueryRequests
    ELSE IF ep = "audio" THEN AudioRequests
    ELSE IF ep = "response" THEN ResponseRequests
    ELSE IF ep = "health" THEN HealthRequests
    ELSE IF ep = "validator" THEN ValidatorCalls
    ELSE ConsumeCalls
providers ==
    IF traffic \in {"core", "config"} THEN CoreOutcomes
    ELSE IF traffic = "answers" THEN AnswerOutcomes
    ELSE AllOutcomes

\* An operation of invocation p changes the record of id.
Changes(p, id) == writer' = (id :> p) @@ writer

\* Invocations are numbered in the order of their arrival.
Arrives(p) ==
    /\ pc[p] = "idle"
    /\ p <= (IF traffic = "core" THEN NumProcs
             ELSE IF traffic = "answers" THEN 1
             ELSE IF traffic = "config" THEN NumConfigProcs
             ELSE NumInputProcs)
    /\ IF p = 1 THEN TRUE ELSE pc[p - 1] # "idle"

\* Invocation p goes on to c.pc with locals c.loc, having logged c.events; a write
\* it issues carries the time t read by Date.now().
Goto(p, c, t) ==
    /\ pc' = [pc EXCEPT ![p] = c.pc]
    /\ loc' = [loc EXCEPT ![p] =
                  IF c.pc \in {"pending_write", "completed_write", "error_write"}
                  THEN [c.loc EXCEPT !.write.timestamp = t] ELSE c.loc]
    /\ log' = [log EXCEPT ![p] = @ \o c.events]
    /\ node' = Accessed(node, c.events)
    /\ now' = IF c.pc \in {"pending_write", "completed_write", "error_write"}
              THEN t ELSE now
    /\ resp' = [resp EXCEPT ![p] = IF c.pc = "done" THEN c.loc.reply ELSE @]

Cont(npc, nloc, events) == [pc |-> npc, loc |-> nloc, events |-> events]
Respond(l, reply, events) == Cont("done", [l EXCEPT !.reply = reply], events)
Issue(l, status, text, reply, events) ==
    Cont(status \o "_write",
         [l EXCEPT !.write = [status |-> status, text |-> text, timestamp |-> 0],
                   !.reply = reply],
         events)

\* The times a step to continuation c may read: a write reads the clock.
Reads(c) ==
    IF c.pc \in {"pending_write", "completed_write", "error_write"}
    THEN ClockValues ELSE {now}

(* ------------------------- the submit handlers ------------------------ *)

\* The outer catch block of the handler: HTTP 500.
ServerError(ep, l, message, events) ==
    IF ep = "query"
    THEN Respond(l, Reply(500, [success |-> FALSE, error |-> "Internal server error",
                                message |-> message]), events)
    ELSE Respond(l, Reply(500, [success |-> FALSE, error |-> "Server error"]), events)

\* The handlers with the transcription error swallowed: no error write, no
\* return, the handler goes on to generation.
TranscriptionFailed_GoesOn(ep, l, message, events) ==
    Cont("generating", l, events \o <<"generateResponse", "generateContent">>)

\* catch (whisperError) of api/query.js, catch (err) of api/audio.js
TranscriptionFailed(ep, l, message, events) ==
    IF ep = "query"
    THEN Issue(l, "error", Str(<<"Transcription failed:">> \o message),
               Reply(200, [success |-> FALSE, request_id |-> l.request_id,
                           message |-> "Audio transcription failed",
                           error |-> message]), events)
    ELSE Issue(l, "error", Str(<<"Transcription failed">>),
               Reply(200, [success |-> FALSE, request_id |-> l.request_id,
                           error |-> <<"Transcription failed">>]), events)

\* The handlers without the catch block around generation: the error reaches
\* the outer catch block.
GenerationFailed_Uncaught(ep, l, message, events) ==
    IF ep = "query"
    THEN Respond(l, Reply(500, [success |-> FALSE, error |-> "Internal server error",
                                message |-> message]), events)
    ELSE Respond(l, Reply(500, [success |-> FALSE, error |-> "Server error"]), events)

\* catch (geminiError) of api/query.js, catch (err) of api/audio.js
GenerationFailed(ep, l, message, events) ==
    IF ep = "query"
    THEN Issue(l, "error", Str(message),
               Reply(200, [success |-> TRUE, request_id |-> l.request_id,
                           transcription |-> l.transcription,
                           message |-> "Query received but AI processing failed",
                           error |-> message]), events)
    ELSE Issue(l, "error", Str(<<"AI processing failed">>),
               Reply(200, [success |-> FALSE, request_id |-> l.request_id,
                           error |-> <<"AI failed">>]), events)

\* The handler after generateResponse returned aiResponse: saveResponse is issued.
Generated(ep, l, aiResponse, events) ==
    IF ep = "query"
    THEN Issue(l, "completed", Str(aiResponse),
               Reply(200, IF Truthy(l.transcription)
                          THEN [success |-> TRUE, request_id |-> l.request_id,
                                message |-> "Query processed successfully",
                                transcription |-> l.transcription]
                          ELSE [success |-> TRUE, request_id |-> l.request_id,
                                message |-> "Query processed successfully"]), events)
    ELSE Issue(l, "completed", Str(aiResponse),
               Reply(200, [success |-> TRUE, request_id |-> l.request_id,
                           message |-> "Audio processed successfully"]), events)

\* The handler with the outcome of generateResponse, a value or a thrown error.
AfterGenerate(ep, l, result, events) ==
    IF result.ok THEN Generated(ep, l, result.value, events)
    ELSE GenerationFailed(ep, l, result.value, events \o <<"generateResponse:throw">>)

\* generateResponse(text) up to the provider call: the input check throws, or
\* generateContent is issued and the timer started.
CallGenerate(ep, l, text, events) ==
    IF text = << >> \/ Trim(text) = << >>
    THEN AfterGenerate(ep, l, Throw(<<"Invalid input: text is required">>),
                       events \o <<"generateResponse">>)
    ELSE IF ~getModel(node).ok
    THEN AfterGenerate(ep, l, GeminiRethrow(getModel(node).message),
                       events \o <<"generateResponse", "getModel">>)
    ELSE Cont("generating", [l EXCEPT !.queryText = text, !.race = StartRace],
              events \o <<"generateResponse", "getModel", "generateContent">>)

\* transcribeAudio(audio) up to the provider call.
CallTranscribe(ep, l, events) ==
    IF ~TranscribeRejects(l.audio).ok
    THEN TranscriptionFailed(ep, l, TranscribeRejects(l.audio).value,
                             events \o <<"transcribeAudio", "transcribeAudio:throw">>)
    ELSE IF ~getGroqClient(node).ok
    THEN TranscriptionFailed(ep, l, WhisperRethrow(getGroqClient(node).message, "").value,
                             events \o <<"transcribeAudio", "getGroqClient",
                                         "transcribeAudio:throw">>)
    ELSE Cont("transcribing", l,
              events \o <<"transcribeAudio", "getGroqClient", "transcriptions.create">>)

\* The handler once the pending record is written: transcription for audio input,
\* generation for text input.
Process(ep, l, events) ==
    IF l.inputType = "audio" THEN CallTranscribe(ep, l, events)
    ELSE CallGenerate(ep, l, l.queryText, events)

\* The handler of api/query.js without its line 133: an accepted request goes
\* to the adapters with no pending record written.
QueryHandler_NoPending(r) ==
    IF r.method # "POST" \/ ~validateRequest(r.body).valid
    THEN Respond(NoLocals, Reply(400, [success |-> FALSE, error |-> << >>]), << >>)
    ELSE Process("query", [NoLocals EXCEPT !.request_id = r.body.request_id.s,
                                           !.inputType = validateRequest(r.body).inputType,
                                           !.queryText = r.body.text.s,
                                           !.audio = r.body.audio], << >>)

\* api/query.js handler, from the request to the call of savePendingResponse.
QueryHandler(r) ==
    IF r.method = "OPTIONS" THEN Respond(NoLocals, Reply(200, << >>), << >>)
    ELSE IF r.method # "POST"
        THEN Respond(NoLocals, Reply(405, [success |-> FALSE,
                                          error |-> "Method not allowed. Use POST."]), << >>)
    ELSE IF ~validateRequest(r.body).valid
        THEN Respond(NoLocals, Reply(400, [success |-> FALSE,
                                          error |-> validateRequest(r.body).error]), << >>)
    ELSE Issue([NoLocals EXCEPT !.request_id = r.body.request_id.s,
                                !.inputType = validateRequest(r.body).inputType,
                                !.queryText = r.body.text.s,
                                !.audio = r.body.audio],
               "pending", JsNull, NoReply, << >>)

\* api/audio.js handler, from the request to the call of savePendingResponse.
AudioHandler(r) ==
    IF r.method = "OPTIONS" THEN Respond(NoLocals, Reply(200, << >>), << >>)
    ELSE IF r.method # "POST"
        THEN Respond(NoLocals, Reply(405, [success |-> FALSE,
                                          error |-> "Use POST method"]), << >>)
    ELSE IF ~validateAudioUpload(r.headers.xRequestId, r.body).valid
        THEN Respond(NoLocals,
                     Reply(400, [success |-> FALSE,
                                 error |-> validateAudioUpload(r.headers.xRequestId,
                                                               r.body).error]), << >>)
    ELSE Issue([NoLocals EXCEPT !.request_id = r.headers.xRequestId.s,
                                !.inputType = "audio",
                                !.audio = Str(BufferToBase64(r.body.s[1]))],
               "pending", JsNull, NoReply, << >>)

\* POST /api/query arrives.
QueryStart(p) ==
    /\ Arrives(p)
    /\ \E r \in Requests("query") : \E t \in Reads(QueryHandler(r)) :
          /\ req' = [req EXCEPT ![p] = r]
          /\ Goto(p, QueryHandler(r), t)
    /\ UNCHANGED <<store, failures, traffic, writer>>

\* POST /api/audio arrives.
AudioStart(p) ==
    /\ Arrives(p)
    /\ \E r \in Requests("audio") : \E t \in Reads(AudioHandler(r)) :
          /\ req' = [req EXCEPT ![p] = r]
          /\ Goto(p, AudioHandler(r), t)
    /\ UNCHANGED <<store, failures, traffic, writer>>

\* A state-store operation can be carried out: its getRef gets the database.
DbReady == getDatabase(node).ok

\* A state-store operation of p throws, its getRef or the store client; the
\* message of the error; the count of the store client's errors afterwards.
StoreThrows == ~DbReady \/ failures < MaxStoreFailures
StoreError == IF DbReady THEN StoreErrorMessage ELSE getDatabase(node).message
Failed == IF DbReady THEN failures + 1 ELSE failures

\* savePendingResponse settles: the record is written and the handler goes on, or
\* the write throws to the outer catch block.
PendingWritten(p) ==
    /\ pc[p] = "pending_write"
    /\ \/ /\ DbReady
          /\ Changes(p, loc[p].request_id)
          /\ store' = savePendingResponse(store, loc[p].request_id, loc[p].write.timestamp)
          /\ \E t \in Reads(Process(req[p].ep, loc[p], <<"set:pending">>)) :
                Goto(p, Process(req[p].ep, loc[p], <<"set:pending">>), t)
          /\ UNCHANGED failures
       \/ /\ StoreThrows
          /\ failures' = Failed
          /\ Goto(p, ServerError(req[p].ep, loc[p], StoreError, <<"throw">>), now)
          /\ UNCHANGED <<store, writer>>
    /\ UNCHANGED <<req, traffic>>

\* The transcription provider settles.
TranscribeSettled(p) ==
    /\ pc[p] = "transcribing"
    /\ \E o \in providers.transcription :
          LET result == transcribeAudioSettled(o)
              c == IF result.ok
                   THEN CallGenerate(req[p].ep,
                                     [loc[p] EXCEPT !.transcription = Str(result.value)],
                                     result.value, << >>)
                   ELSE TranscriptionFailed(req[p].ep, loc[p], result.value,
                                            <<"transcribeAudio:throw">>)
          IN  \E t \in Reads(c) : Goto(p, c, t)
    /\ UNCHANGED <<req, store, failures, traffic, writer>>

\* The generation provider settles before the timer.
GenerateSettled(p) ==
    /\ pc[p] = "generating"
    /\ \E o \in providers.generation :
          LET l == [loc[p] EXCEPT !.responseText = IF o.ok THEN Str(o.value) ELSE JsNull,
                                  !.race = PromiseSettle(@, "provider")]
              c == AfterGenerate(req[p].ep, l, generateResponseSettled(o), << >>)
          IN  \E t \in Reads(c) : Goto(p, c, t)
    /\ UNCHANGED <<req, store, failures, traffic, writer>>

\* The timer of generateResponse fires before the provider settles.
GenerateTimeout(p) ==
    /\ pc[p] = "generating"
    /\ LET c == AfterGenerate(req[p].ep,
                              [loc[p] EXCEPT !.race = PromiseSettle(@, "timer")],
                              generateResponseSettled(Throw(TimeoutMessage)), <<"timeout">>)
       IN  \E t \in Reads(c) : Goto(p, c, t)
    /\ UNCHANGED <<req, store, failures, traffic, writer>>

\* A contender of the race settles with outcome o after the race was settled:
\* the settled promise ignores it and nothing awaits it.
Late(p, who, o) ==
    /\ pc[p] # "generating"
    /\ who \in loc[p].race.open
    /\ LET l == [loc[p] EXCEPT !.race = PromiseSettle(@, who)]
           c == AfterGenerate(req[p].ep, l, generateResponseSettled(o), << >>)
       IN  IF Resumes(loc[p].race, l.race)
           THEN \E t \in Reads(c) : Goto(p, c, t)
           ELSE /\ loc' = [loc EXCEPT ![p] = l]
                /\ UNCHANGED <<pc, resp, log, now, node>>
    /\ UNCHANGED <<req, store, failures, traffic, writer>>

\* The abandoned provider call settles after the timer has fired.
LateResult(p) == \E o \in providers.generation : Late(p, "provider", o)

\* The timer fires after the provider call has settled.
LateTimer(p) == Late(p, "timer", Throw(TimeoutMessage))

\* saveResponse settles: the record is written and the handler answers, or the
\* write throws into the catch block around generation.
CompletedWritten(p) ==
    /\ pc[p] = "completed_write"
    /\ \/ /\ DbReady
          /\ Changes(p, loc[p].request_id)
          /\ store' = saveResponse(store, loc[p].request_id, loc[p].write.text,
                                   loc[p].write.timestamp)
          /\ Goto(p, Respond(loc[p], loc[p].reply, <<"set:completed">>), now)
          /\ UNCHANGED failures
       \/ /\ StoreThrows
          /\ failures' = Failed
          /\ \E t \in ClockValues :
                Goto(p, GenerationFailed(req[p].ep, loc[p], StoreError, <<"throw">>), t)
          /\ UNCHANGED <<store, writer>>
    /\ UNCHANGED <<req, traffic>>

\* saveErrorResponse settles: the record is written and the handler answers, or
\* the write throws to the outer catch block.
ErrorWritten(p) ==
    /\ pc[p] = "error_write"
    /\ \/ /\ DbReady
          /\ Changes(p, loc[p].request_id)
          /\ store' = saveErrorResponse(store, loc[p].request_id, loc[p].write.text,
                                        loc[p].write.timestamp)
          /\ Goto(p, Respond(loc[p], loc[p].reply, <<"set:error">>), now)
          /\ UNCHANGED failures
       \/ /\ StoreThrows
          /\ failures' = Failed
          /\ Goto(p, ServerError(req[p].ep, loc[p], StoreError, <<"throw">>), now)
          /\ UNCHANGED <<store, writer>>
    /\ UNCHANGED <<req, traffic>>

(* ------------------------ the response handler ------------------------ *)

\* handleGet without its branch for a pending record (lines 62-70).
handleGet_NoPendingBranch(requestId, response) ==
    IF response.t = "null"
        THEN Reply(404, [success |-> FALSE, request_id |-> requestId,
                         status |-> "not_found",
                         message |-> "No response found for this request_id"])
    ELSE IF response.status = "error"
        THEN Reply(200, [success |-> TRUE, request_id |-> requestId,
                         status |-> "error", text |-> response.text,
                         message |-> "AI processing encountered an error"])
    ELSE Reply(200, [success |-> TRUE, request_id |-> requestId,
                     status |-> "completed", text |-> response.text,
                     timestamp |-> response.timestamp])

\* api/response.js handleGet with the value getResponse returned.
handleGet(requestId, response) ==
    IF response.t = "null"
        THEN Reply(404, [success |-> FALSE, request_id |-> requestId,
                         status |-> "not_found",
                         message |-> "No response found for this request_id"])
    ELSE IF response.status = "pending"
        THEN Reply(202, [success |-> TRUE, request_id |-> requestId,
                         status |-> "pending",
                         message |-> "Response is still being processed"])
    ELSE IF response.status = "error"
        THEN Reply(200, [success |-> TRUE, request_id |-> requestId,
                         status |-> "error", text |-> response.text,
                         message |-> "AI processing encountered an error"])
    ELSE Reply(200, [success |-> TRUE, request_id |-> requestId,
                     status |-> "completed", text |-> response.text,
                     timestamp |-> response.timestamp])

\* api/response.js handleGet, its catch block.
GetFailed(message) ==
    Reply(500, [success |-> FALSE, error |-> "Failed to retrieve response",
                message |-> message])

\* handleDelete without its test of the value deleteResponse returned
\* (lines 115-121).
handleDelete_IgnoresResult(requestId, deleted) ==
    Reply(200, [success |-> TRUE, request_id |-> requestId,
                message |-> "Response deleted successfully"])

\* api/response.js handleDelete with the value deleteResponse returned.
handleDelete(requestId, deleted) ==
    IF ~deleted
    THEN Reply(404, [success |-> FALSE, request_id |-> requestId,
                     message |-> "No response found to delete"])
    ELSE Reply(200, [success |-> TRUE, request_id |-> requestId,
                     message |-> "Response deleted successfully"])

\* api/response.js handleDelete, its catch block.
DeleteFailed(message) ==
    Reply(500, [success |-> FALSE, error |-> "Failed to delete response",
                message |-> message])

\* api/response.js handler up to the routing: the answer to a request it turns
\* away, NoReply for one it routes to handleGet or handleDelete.
ResponseHandler(r) ==
    IF r.method = "OPTIONS" THEN Reply(200, << >>)
    ELSE IF r.method \notin {"GET", "DELETE"}
        THEN Reply(405, [success |-> FALSE,
                         error |-> "Method not allowed. Use GET or DELETE."])
    ELSE IF ~validateRequestId(r.query.request_id).valid
        THEN Reply(400, [success |-> FALSE,
                         error |-> validateRequestId(r.query.request_id).error])
    ELSE NoReply

\* A request to /api/response arrives: it is turned away, or the record is read
\* (getResponse for GET, the existence check of deleteResponse for DELETE).
ResponseStart(p) ==
    /\ Arrives(p)
    /\ \E r \in Requests("response") :
          LET l == [NoLocals EXCEPT !.request_id = r.query.request_id.s]
              id == r.query.request_id.s
          IN  /\ req' = [req EXCEPT ![p] = r]
              /\ IF ResponseHandler(r) # NoReply
                 THEN /\ Goto(p, Respond(NoLocals, ResponseHandler(r), << >>), now)
                      /\ UNCHANGED failures
                 ELSE \/ /\ DbReady
                         /\ r.method = "GET"
                         /\ Goto(p, Respond(l, handleGet(id, getResponse(store, id)),
                                            <<"once">>), now)
                         /\ UNCHANGED failures
                      \/ /\ DbReady
                         /\ r.method = "DELETE"
                         /\ IF SnapshotExists(store, id)
                            THEN Goto(p, Cont("removing", l, <<"once">>), now)
                            ELSE Goto(p, Respond(l, handleDelete(id, FALSE), <<"once">>), now)
                         /\ UNCHANGED failures
                      \/ /\ StoreThrows
                         /\ failures' = Failed
                         /\ Goto(p, Respond(l, IF r.method = "GET"
                                               THEN GetFailed(StoreError)
                                               ELSE DeleteFailed(StoreError),
                                            <<"throw">>), now)
    /\ UNCHANGED <<store, traffic, writer>>

\* ref.remove() of deleteResponse settles.
DeleteRemoved(p) ==
    /\ pc[p] = "removing"
    /\ \/ /\ DbReady
          /\ Changes(p, loc[p].request_id)
          /\ store' = RefRemove(store, loc[p].request_id)
          /\ Goto(p, Respond(loc[p], handleDelete(loc[p].request_id, TRUE), <<"remove">>), now)
          /\ UNCHANGED failures
       \/ /\ StoreThrows
          /\ failures' = Failed
          /\ Goto(p, Respond(loc[p], DeleteFailed(StoreError), <<"throw">>), now)
          /\ UNCHANGED <<store, writer>>
    /\ UNCHANGED <<req, traffic>>

(* ------------------------- the health check -------------------------- *)

\* The root endpoint's handler: it looks at nothing of the request.
HealthHandler(r) ==
    Reply(200, [name |-> "ESP32 Voice Assistant API", version |-> "1.0.0",
                status |-> "running"])

\* The response headers a handler sets before it looks at the request.
SetHeaders(ep) ==
    IF ep = "query"
    THEN {"Access-Control-Allow-Origin", "Access-Control-Allow-Methods",
          "Access-Control-Allow-Headers", "Content-Type"}
    ELSE IF ep = "audio"
    THEN {"Access-Control-Allow-Origin", "Access-Control-Allow-Methods",
          "Access-Control-Allow-Headers", "Content-Type"}
    ELSE IF ep = "response"
    THEN {"Access-Control-Allow-Origin", "Access-Control-Allow-Methods",
          "Access-Control-Allow-Headers", "Content-Type"}
    ELSE IF ep = "health" THEN {"Content-Type"}
    ELSE {}

\* The methods a handler lets through, as its Access-Control-Allow-Methods header
\* and its method test have it; the root endpoint is documented as GET /.
AllowedMethods(ep) ==
    IF ep \in {"query", "audio"} THEN {"POST", "OPTIONS"}
    ELSE IF ep = "response" THEN {"GET", "DELETE", "OPTIONS"}
    ELSE {"GET"}

\* A request to the root endpoint arrives and is answered.
HealthStart(p) ==
    /\ Arrives(p)
    /\ \E r \in Requests("health") :
          /\ req' = [req EXCEPT ![p] = r]
          /\ Goto(p, Respond(NoLocals, HealthHandler(r), << >>), now)
    /\ UNCHANGED <<store, failures, traffic, writer>>

\* dbService.markAsConsumed is called and its ref.update() settles.
MarkAsConsumed(p) ==
    /\ Arrives(p)
    /\ \E r \in Requests("consume") :
          /\ req' = [req EXCEPT ![p] = r]
          /\ loc' = [loc EXCEPT ![p] = [NoLocals EXCEPT !.request_id = r.requestId]]
          /\ \/ \E t \in ClockValues :
                   /\ DbReady
                   /\ Changes(p, r.requestId)
                   /\ store' = markAsConsumed(store, r.requestId, t)
                   /\ now' = t
                   /\ log' = [log EXCEPT ![p] = <<"update">>]
                   /\ UNCHANGED failures
             \/ /\ StoreThrows
                /\ failures' = Failed
                /\ log' = [log EXCEPT ![p] = <<"throw">>]
                /\ UNCHANGED <<store, now, writer>>
    /\ pc' = [pc EXCEPT ![p] = "done"]
    /\ node' = getDatabase(node).node
    /\ UNCHANGED <<resp, traffic>>

(* --------------------------- the validators --------------------------- *)

\* A call of validateRequestId or validateQueryText: resp[p].body is what it returns.
Validate(p, fn) ==
    /\ Arrives(p)
    /\ \E r \in {c \in Requests("validator") : c.fn = fn} :
          /\ req' = [req EXCEPT ![p] = r]
          /\ resp' = [resp EXCEPT ![p] =
                          Reply(0, IF fn = "validateRequestId"
                                   THEN utilsValidateRequestId(r.arg)
                                   ELSE validateQueryText(r.arg))]
    /\ pc' = [pc EXCEPT ![p] = "done"]
    /\ UNCHANGED <<loc, store, now, failures, log, traffic, writer, node>>

ValidateRequestIdCalled(p) == Validate(p, "validateRequestId")
ValidateQueryTextCalled(p) == Validate(p, "validateQueryText")

(* --------------------------- specification ---------------------------- *)

Next ==
    \E p \in Procs :
        \/ QueryStart(p)
        \/ AudioStart(p)
        \/ ResponseStart(p)
        \/ HealthStart(p)
        \/ MarkAsConsumed(p)
        \/ PendingWritten(p)
        \/ TranscribeSettled(p)
        \/ GenerateSettled(p)
        \/ GenerateTimeout(p)
        \/ CompletedWritten(p)
        \/ ErrorWritten(p)
        \/ DeleteRemoved(p)

Spec == Init /\ [][Next]_vars
SpecInputs == InitInputs /\ [][Next]_vars

\* One submit-query invocation from its arrival to its answer.
NextAnswers ==
    \E p \in Procs :
        \/ QueryStart(p)
        \/ PendingWritten(p)
        \/ GenerateSettled(p)
        \/ GenerateTimeout(p)
        \/ LateResult(p)
        \/ LateTimer(p)
        \/ CompletedWritten(p)
        \/ ErrorWritten(p)

SpecAnswers == InitAnswers /\ [][NextAnswers]_vars

\* The handlers in a deployment with required environment variables missing,
\* the settlements that come after a race was decided followed as well.
NextConfig ==
    \/ Next
    \/ \E p \in Procs : LateResult(p) \/ LateTimer(p)

SpecConfig == InitConfig /\ [][NextConfig]_vars

\* What the scheduling guarantees: a store operation that was issued settles,
\* and the timer of generateResponse fires unless the provider settles first.
\* Nothing bounds the time the transcription provider takes.
Fairness ==
    \A p \in Procs :
        /\ WF_vars(PendingWritten(p))
        /\ WF_vars(CompletedWritten(p))
        /\ WF_vars(ErrorWritten(p))
        /\ WF_vars(DeleteRemoved(p))
        /\ WF_vars(GenerateSettled(p) \/ GenerateTimeout(p))

SpecLive == InitConfig /\ [][NextConfig]_vars /\ Fairness

\* The validators of utils/validator.js, called on their own.
NextValidators ==
    \E p \in Procs : ValidateRequestIdCalled(p) \/ ValidateQueryTextCalled(p)

SpecValidators == InitValidators /\ [][NextValidators]_vars

(* ------------------------------ properties ---------------------------- *)

\* Invocation p is a submit (query or binary audio) that passed validation.
Accepted(p) == req[p].ep \in {"query", "audio"} /\ loc[p].inputType # "none"

\* The record writes invocation p has completed, in order.
Writes(p) ==
    SelectSeq(log[p], LAMBDA e : e \in {"set:pending", "set:completed", "set:error"})

\* The adapter and provider calls invocation p has issued, in order.
AiCalls(p) ==
    SelectSeq(log[p], LAMBDA e : e \in {"transcribeAudio", "transcriptions.create",
                                        "generateResponse", "generateContent"})

\* C1: one submit-query invocation with an accepted identifier and text, racing
\* only with polls and deletes and with no store operation failing, finds the
\* record absent, writes it as pending, then writes it exactly once more, as
\* completed or as error, and between these two writes the record is pending.
C1_OneTransitionSequence ==
    \A p \in Procs :
        ( /\ req[p].ep = "query"
          /\ loc[p].inputType = "text"
          /\ failures = 0
          /\ \A q \in Procs \ {p} : req[q].ep \in {"none", "response"} )
        => LET id == loc[p].request_id
           IN  /\ pc[p] = "pending_write" => Writes(p) = << >> /\ id \notin DOMAIN store
               /\ pc[p] \in {"generating", "completed_write", "error_write"}
                     => /\ Writes(p) = <<"set:pending">>
                        /\ id \in DOMAIN store
                        /\ StatusOf(store[id]) = "pending"
               /\ pc[p] = "done"
                     => /\ Len(Writes(p)) = 2
                        /\ Writes(p)[1] = "set:pending"
                        /\ Writes(p)[2] \in {"set:completed", "set:error"}

\* C2: a record that has a status keeps it or goes from pending to completed
\* or error: while the record exists it never goes back to pending and never
\* from one terminal status to the other, whatever invocation writes it.
C2_StatusMonotonic ==
    [][ \A id \in DOMAIN store \cap DOMAIN store' :
            StatusOf(store[id]) \in {"pending", "completed", "error"}
            => \/ StatusOf(store'[id]) = StatusOf(store[id])
               \/ /\ StatusOf(store[id]) = "pending"
                  /\ StatusOf(store'[id]) \in {"completed", "error"} ]_vars

\* C3: an invocation that has issued a call to the transcription or generation
\* adapter, or is waiting for one, has written the pending record before: the
\* write of pending is the first operation it completed, ahead of every call.
C3_PendingBeforeAiCall ==
    \A p \in Procs :
        (AiCalls(p) # << >> \/ pc[p] \in {"transcribing", "generating"})
        => /\ Accepted(p)
           /\ log[p] # << >>
           /\ log[p][1] = "set:pending"

\* C3 happens: a query invocation waits for the generation provider and a
\* binary-audio invocation for the transcription provider, both past pending.
C3_Witness ==
    \E p, q \in Procs :
        /\ req[p].ep = "query" /\ pc[p] = "generating"
        /\ req[q].ep = "audio" /\ pc[q] = "transcribing"

\* C4: a GET poll for an identifier whose read is executed while a submit
\* invocation for that identifier has written its pending record and waits for
\* a provider (none of its remaining AI calls has resolved), the pending write
\* being the last change of the record, is answered with HTTP 202 and status
\* "pending".
C4_PollSeesPending ==
    [][ \A g, p \in Procs :
            ( /\ pc[g] = "idle"
              /\ pc'[g] = "done"
              /\ req'[g] = ResponseReq("GET", Str(loc[p].request_id))
              /\ log'[g] = <<"once">>
              /\ Accepted(p)
              /\ pc[p] \in {"transcribing", "generating"}
              /\ loc[p].request_id \in DOMAIN writer
              /\ writer[loc[p].request_id] = p )
            => /\ resp'[g].code = 202
               /\ resp'[g].body.success
               /\ resp'[g].body.status = "pending" ]_vars

\* C4 happens: a poll was answered 202 after the submit before it wrote pending,
\* and that submit still waits for the generation provider.
C4_Witness ==
    \E g, p \in Procs :
        /\ p < g
        /\ Accepted(p)
        /\ pc[p] = "generating"
        /\ writer[loc[p].request_id] = p
        /\ pc[g] = "done"
        /\ req[g] = ResponseReq("GET", Str(loc[p].request_id))
        /\ resp[g].code = 202
        /\ \A q \in Procs \ {p, g} : pc[q] = "idle"

\* C5: a GET poll whose read of the store succeeds reports the stored state of
\* the record: absent gives 404 "not_found", status pending 202 "pending",
\* status error 200 "error" with the stored text, status completed 200
\* "completed" with the stored text and timestamp; for no other state of the
\* record is "completed" reported.
C5_PollReportsStoredState ==
    [][ \A g \in Procs :
            ( /\ pc[g] = "idle"
              /\ pc'[g] = "done"
              /\ req'[g].ep = "response"
              /\ req'[g].method = "GET"
              /\ log'[g] = <<"once">> )
            => LET id == req'[g].query.request_id.s
                   r == resp'[g]
               IN  IF id \notin DOMAIN store
                       THEN r.code = 404 /\ r.body.status = "not_found"
                   ELSE IF StatusOf(store[id]) = "pending"
                       THEN r.code = 202 /\ r.body.status = "pending"
                   ELSE IF StatusOf(store[id]) = "error"
                       THEN /\ r.code = 200
                            /\ r.body.status = "error"
                            /\ r.body.text = TextOf(store[id])
                   ELSE IF StatusOf(store[id]) = "completed"
                       THEN /\ r.code = 200
                            /\ r.body.status = "completed"
                            /\ r.body.text = TextOf(store[id])
                            /\ r.body.timestamp = TimestampOf(store[id])
                   ELSE r.body.status # "completed" ]_vars

\* C6: once a DELETE for an identifier has been answered with HTTP 200, a GET
\* poll for that identifier that arrives later, with no submit or
\* acknowledgment for the identifier having arrived after the DELETE, and whose
\* read succeeds, is answered with HTTP 404 and status "not_found"; the submit
\* that wrote the record may still be in progress when the DELETE is served.
C6_GoneAfterDelete ==
    [][ \A d, g \in Procs :
            ( /\ d < g
              /\ pc[d] = "done"
              /\ req[d].ep = "response"
              /\ req[d].method = "DELETE"
              /\ resp[d].code = 200
              /\ pc[g] = "idle"
              /\ pc'[g] = "done"
              /\ req'[g] = ResponseReq("GET", req[d].query.request_id)
              /\ log'[g] = <<"once">>
              /\ \A q \in Procs : d < q /\ q < g => req[q].ep = "response" )
            => /\ resp'[g].code = 404
               /\ resp'[g].body.status = "not_found" ]_vars

\* C7: a DELETE whose read finds the record of its identifier goes on to remove
\* it, and when the removal settles the record is gone and the answer is HTTP
\* 200 with success true; a second DELETE for the identifier that arrives after
\* the first was answered 200, the record not having been written since the
\* first removed it, is answered with HTTP 404 and success false.
C7_DeleteTwice ==
    [][ /\ \A d \in Procs :
              ( /\ pc[d] = "idle"
                /\ pc'[d] # "idle"
                /\ req'[d].ep = "response"
                /\ req'[d].method = "DELETE"
                /\ log'[d] = <<"once">>
                /\ req'[d].query.request_id.s \in DOMAIN store )
              => pc'[d] = "removing"
        /\ \A d \in Procs :
              ( /\ pc[d] = "removing"
                /\ log'[d] = <<"once", "remove">> )
              => /\ pc'[d] = "done"
                 /\ resp'[d].code = 200
                 /\ resp'[d].body.success
                 /\ loc[d].request_id \notin DOMAIN store'
        /\ \A d1, d2 \in Procs :
              ( /\ d1 < d2
                /\ pc[d1] = "done"
                /\ req[d1].ep = "response"
                /\ req[d1].method = "DELETE"
                /\ resp[d1].code = 200
                /\ loc[d1].request_id \in DOMAIN writer
                /\ writer[loc[d1].request_id] = d1
                /\ pc[d2] = "idle"
                /\ pc'[d2] # "idle"
                /\ req'[d2] = req[d1]
                /\ log'[d2] = <<"once">> )
              => /\ pc'[d2] = "done"
                 /\ resp'[d2].code = 404
                 /\ ~resp'[d2].body.success ]_vars

\* C7 happens: a record was written, a DELETE removed it and was answered 200,
\* and a second DELETE for the identifier was answered 404.
C7_Witness ==
    \E p, d1, d2 \in Procs :
        /\ p < d1 /\ d1 < d2
        /\ Accepted(p)
        /\ pc[p] = "done"
        /\ req[d1] = ResponseReq("DELETE", Str(loc[p].request_id))
        /\ req[d2] = req[d1]
        /\ pc[d1] = "done" /\ resp[d1].code = 200 /\ resp[d1].body.success
        /\ pc[d2] = "done" /\ resp[d2].code = 404 /\ ~resp[d2].body.success
        /\ writer[loc[p].request_id] = d1

\* The identifier v is missing, or has a character outside [A-Za-z0-9_-].
BadIdentifier(v) ==
    \/ v.t \in {"undefined", "null"}
    \/ v.t = "string" /\ v.s = << >>
    \/ v.t = "string" /\ \E i \in 1..Len(v.s) :
                             v.s[i] \notin Lower \cup Upper \cup Digit \cup {"_", "-"}

\* Request r carries one of the invalid inputs of C8.
FailsValidation(r) ==
    \/ /\ r.ep = "query" /\ r.method = "POST" /\ r.body.t = "object"
       /\ \/ BadIdentifier(r.body.request_id)
          \/ /\ r.body.audio.t \in {"undefined", "null"}
             /\ \/ r.body.text.t \in {"undefined", "null"}
                \/ /\ r.body.text.t = "string"
                   /\ \/ \A i \in 1..Len(r.body.text.s) : r.body.text.s[i] \in Whitespace
                      \/ Len(r.body.text.s) > MAX_QUERY_LENGTH
          \/ /\ r.body.audio.t = "string"
             /\ \E i \in 1..Len(r.body.audio.s) :
                   r.body.audio.s[i].c \notin Base64Chars \cup {"="}
    \/ r.ep = "audio" /\ r.method = "POST" /\ BadIdentifier(r.headers.xRequestId)
    \/ r.ep = "response" /\ r.method \in {"GET", "DELETE"}
                         /\ BadIdentifier(r.query.request_id)

\* C8: a request to the query, binary-audio or response endpoint whose
\* identifier is missing or has a character outside [A-Za-z0-9_-], whose text
\* is missing, blank or too long, or whose audio is not base64, is answered at
\* once with HTTP 400 and success false: the invocation ends having made no
\* store operation and no adapter call, and the store is as it was. No request
\* answered with 400 has made a store operation or an adapter call.
C8_RejectedBeforeDownstream ==
    [][ \A p \in Procs :
            /\ ( pc[p] = "idle" /\ pc'[p] # "idle" /\ FailsValidation(req'[p]) )
               => /\ pc'[p] = "done"
                  /\ resp'[p].code = 400
                  /\ ~resp'[p].body.success
                  /\ log'[p] = << >>
                  /\ store' = store
            /\ ( pc[p] # "done" /\ pc'[p] = "done" /\ resp'[p].code = 400 )
               => /\ log'[p] = << >>
                  /\ store' = store ]_vars

\* C8 happens: while a record is stored, a query with the identifier "../etc"
\* has been answered 400.
C8_Witness ==
    \E p \in Procs :
        /\ req[p] = QueryReq("POST", Body(Str(IdBad), Str(Hi), JsUndefined))
        /\ pc[p] = "done"
        /\ resp[p].code = 400
        /\ store # << >>

\* C9: no record is stored under an identifier of more than 64 characters, and
\* a request to any entry point (POST query, POST binary audio with the
\* X-Request-ID header, GET and DELETE response) whose identifier has more than
\* 64 characters is answered with HTTP 400 without any store operation.
C9_NoLongIdentifier ==
    /\ \A id \in DOMAIN store : Len(id) <= MAX_REQUEST_ID_LENGTH
    /\ \A p \in Procs :
          LET r == req[p]
              v == IF r.ep = "query" /\ r.method = "POST" /\ r.body.t = "object"
                       THEN r.body.request_id
                   ELSE IF r.ep = "audio" /\ r.method = "POST"
                       THEN r.headers.xRequestId
                   ELSE IF r.ep = "response" /\ r.method \in {"GET", "DELETE"}
                       THEN r.query.request_id
                   ELSE JsUndefined
          IN  (v.t = "string" /\ Len(v.s) > MAX_REQUEST_ID_LENGTH)
              => /\ pc[p] = "done"
                 /\ resp[p].code = 400
                 /\ log[p] = << >>

\* C10: a request whose audio exceeds the ceiling of its mode (more than
\* 200 * 1024 characters of base64 in JSON, more than 2 * 1024 * 1024 bytes in
\* a binary body) is answered with HTTP 400, and an invocation that has written
\* the pending record for an audio input, or has called transcribeAudio, holds
\* base64 text of at most the 200 * 1024 characters transcribeAudio accepts.
C10_AudioWithinLimit ==
    \A p \in Procs :
        LET r == req[p]
            oversize ==
                \/ /\ r.ep = "query" /\ r.method = "POST" /\ r.body.t = "object"
                   /\ r.body.audio.t = "string"
                   /\ RunLen(r.body.audio.s) > MAX_AUDIO_SIZE_BYTES
                \/ /\ r.ep = "audio" /\ r.method = "POST"
                   /\ r.body.t = "buffer"
                   /\ r.body.s[1] > MAX_AUDIO_SIZE
        IN  /\ (pc[p] # "idle" /\ oversize) => (pc[p] = "done" /\ resp[p].code = 400)
            /\ ( /\ Accepted(p)
                 /\ loc[p].inputType = "audio"
                 /\ \E i \in 1..Len(log[p]) : log[p][i] \in {"set:pending", "transcribeAudio"} )
               => RunLen(loc[p].audio.s) <= MAX_AUDIO_SIZE_BYTES

\* Invocation p has logged event e.
Logged(p, e) == \E i \in 1..Len(log[p]) : log[p][i] = e

\* The text generateResponse throws when its timer fires first.
TimeoutText == Str(<<"AI service is taking too long. Please try again.">>)

\* C11: when the generation provider does not answer within the time limit, the
\* submit invocation, query and binary audio alike, ends with its record written as
\* error and with the timeout message as the text, a text that differs from the
\* one written after any other failure of generation.  Stated for the invocations
\* that have answered and in which no store operation threw.
C11_TimeoutMessageStored ==
    \A p \in Procs :
        (Accepted(p) /\ pc[p] = "done" /\ Logged(p, "timeout") /\ ~Logged(p, "throw"))
        => /\ Writes(p) = <<"set:pending", "set:error">>
           /\ loc[p].write.status = "error"
           /\ loc[p].write.text = TimeoutText
           /\ \A q \in Procs :
                 (/\ Accepted(q) /\ pc[q] = "done" /\ ~Logged(q, "throw")
                  /\ Logged(q, "generateResponse:throw") /\ ~Logged(q, "timeout"))
                 => loc[q].write.text # loc[p].write.text

\* The (0-based) indices past the midpoint of MAX_RESPONSE_LENGTH at which the
\* first MAX_RESPONSE_LENGTH characters of c hold a sentence mark.
MarksPastMidpoint(c) ==
    {i \in 0..(MAX_RESPONSE_LENGTH - 1) :
        i < Len(c) /\ c[i + 1] \in {".", "?", "!"} /\ 2 * i > MAX_RESPONSE_LENGTH}
Greatest(S) == CHOOSE m \in S : \A x \in S : x <= m

\* C12: for a provider response whose cleaned text c is longer than
\* MAX_RESPONSE_LENGTH, cleanResponse returns the prefix of c that ends with the
\* last sentence mark ('.', '?', '!') among the first MAX_RESPONSE_LENGTH
\* characters when a mark lies at an index past the midpoint, and the first
\* MAX_RESPONSE_LENGTH characters followed by "..." otherwise; a cleaned text of
\* at most MAX_RESPONSE_LENGTH characters is returned unchanged.  The result is
\* read where the handler holds it, as the text of the completed write.
C12_TruncateAtSentence ==
    \A p \in Procs :
        (Accepted(p) /\ loc[p].responseText.t = "string"
                     /\ loc[p].write.status = "completed")
        => LET c == StripMarkdown(loc[p].responseText.s)
               out == loc[p].write.text.s
           IN  IF Len(c) <= MAX_RESPONSE_LENGTH THEN out = c
               ELSE IF MarksPastMidpoint(c) # {}
                   THEN out = SubSeq(c, 1, Greatest(MarksPastMidpoint(c)) + 1)
               ELSE out = SubSeq(c, 1, MAX_RESPONSE_LENGTH) \o <<".", ".", ".">>

\* A response longer than the limit was cut back to a sentence end and stored.
C12_Witness ==
    \E p \in Procs :
        /\ pc[p] = "done" /\ loc[p].responseText.t = "string"
        /\ Len(StripMarkdown(loc[p].responseText.s)) > MAX_RESPONSE_LENGTH
        /\ Writes(p) = <<"set:pending", "set:completed">>
        /\ Len(loc[p].write.text.s) < MAX_RESPONSE_LENGTH
        /\ 2 * Len(loc[p].write.text.s) > MAX_RESPONSE_LENGTH
        /\ loc[p].write.text.s[Len(loc[p].write.text.s)] = "?"

\* C13: whatever the generation provider answers, the text of a completed record,
\* and so the text a GET reports for it, is at most MAX_RESPONSE_LENGTH (1000)
\* characters long.
C13_AnswerWithinLimit ==
    \A id \in DOMAIN store :
        StatusOf(store[id]) = "completed"
        => /\ Len(TextOf(store[id]).s) <= MAX_RESPONSE_LENGTH
           /\ Len(handleGet(id, getResponse(store, id)).body.text.s) <= MAX_RESPONSE_LENGTH

\* An adapter call of invocation p has thrown: transcription or generation failed.
AdapterFailed(p) ==
    Logged(p, "transcribeAudio:throw") \/ Logged(p, "generateResponse:throw")

\* C14: in a submit invocation whose input passed validation and none of whose
\* store operations throws, a failure of transcription or of generation makes
\* the handler issue the error write with an error text and an HTTP 200 answer;
\* when the write settles the record has status error and that text and the
\* invocation answers 200; and a GET that arrives afterwards, the error write
\* being the last change of the record, reports status "error" with that text.
C14_AiFailureRecorded ==
    [][ \A p \in Procs :
          /\ ( Accepted(p) /\ ~AdapterFailed(p) /\ AdapterFailed(p)' /\ ~Logged(p, "throw") )
             => /\ pc'[p] = "error_write"
                /\ loc'[p].write.status = "error"
                /\ loc'[p].write.text.t = "string"
                /\ loc'[p].write.text.s # << >>
                /\ loc'[p].reply.code = 200
          /\ ( /\ Accepted(p) /\ AdapterFailed(p) /\ ~Logged(p, "throw")
               /\ pc[p] = "error_write" /\ pc'[p] = "done"
               /\ log'[p] = log[p] \o <<"set:error">> )
             => /\ resp'[p].code = 200
                /\ Writes(p)' = <<"set:pending", "set:error">>
                /\ SnapshotExists(store', loc[p].request_id)
                /\ StatusOf(store'[loc[p].request_id]) = "error"
                /\ TextOf(store'[loc[p].request_id]) = loc[p].write.text
          /\ \A g \in Procs :
                ( /\ Accepted(p) /\ AdapterFailed(p) /\ ~Logged(p, "throw")
                  /\ pc[p] = "done"
                  /\ loc[p].request_id \in DOMAIN writer
                  /\ writer[loc[p].request_id] = p
                  /\ pc[g] = "idle" /\ pc'[g] = "done"
                  /\ req'[g] = ResponseReq("GET", Str(loc[p].request_id))
                  /\ log'[g] = <<"once">> )
                => /\ resp'[g].code = 200
                   /\ resp'[g].body.status = "error"
                   /\ resp'[g].body.text = loc[p].write.text ]_vars

\* C14 happens: generation failed in one submit and transcription in another,
\* each answered 200, and a poll after the second got its error text.
C14_Witness ==
    \E p, q, g \in Procs :
        /\ p < q /\ q < g
        /\ Accepted(p) /\ pc[p] = "done" /\ Logged(p, "generateResponse:throw")
        /\ Accepted(q) /\ pc[q] = "done" /\ Logged(q, "transcribeAudio:throw")
        /\ ~Logged(p, "throw") /\ ~Logged(q, "throw")
        /\ resp[p].code = 200 /\ resp[q].code = 200
        /\ writer[loc[q].request_id] = q
        /\ req[g] = ResponseReq("GET", Str(loc[q].request_id))
        /\ pc[g] = "done" /\ resp[g].code = 200
        /\ resp[g].body.status = "error"
        /\ resp[g].body.text = loc[q].write.text

\* C15: an invocation in which a state-store operation (the pending, completed
\* or error write, the read, the delete) has thrown answers HTTP 500; a failure
\* of the completed write after a successful generation in particular is not
\* recorded as an error record and not reported as an AI processing failure.
\* Stated for the invocations that have answered.
C15_StoreFailureIs500 ==
    \A p \in Procs :
        ( /\ req[p].ep \in {"query", "audio", "response"}
          /\ Logged(p, "throw")
          /\ pc[p] = "done" )
        => /\ resp[p].code = 500
           /\ ~Logged(p, "set:error")

\* C16: a record has one writer, the submit invocation that created it: when a
\* submit invocation writes completed or error to a record whose last change
\* was made by a submit invocation, that invocation is itself (the change was
\* its own pending write), so that the record ends with the outcome of the
\* submit that last wrote pending.
C16_SingleWriter ==
    [][ \A p \in Procs :
          ( /\ Accepted(p)
            /\ pc[p] \in {"completed_write", "error_write"}
            /\ \/ log'[p] = log[p] \o <<"set:completed">>
               \/ log'[p] = log[p] \o <<"set:error">>
            /\ loc[p].request_id \in DOMAIN writer
            /\ Accepted(writer[loc[p].request_id]) )
          => writer[loc[p].request_id] = p ]_vars

\* How often invocation p has logged event e.
Count(p, e) == Len(SelectSeq(log[p], LAMBDA x : x = e))

\* C17: a submit invocation calls the transcription adapter and its provider at
\* most once and the generation adapter and its provider at most once; after a
\* failed transcription it never calls generation; and the error write is its
\* last operation: once it is applied the invocation has answered and performs
\* no further call and no further write.
C17_NoRetry ==
    \A p \in Procs :
        Accepted(p)
        => /\ Count(p, "transcribeAudio") <= 1
           /\ Count(p, "transcriptions.create") <= 1
           /\ Count(p, "generateResponse") <= 1
           /\ Count(p, "generateContent") <= 1
           /\ Logged(p, "transcribeAudio:throw") => ~Logged(p, "generateResponse")
           /\ \A i \in 1..Len(log[p]) :
                 log[p][i] = "set:error" => (i = Len(log[p]) /\ pc[p] = "done")
           /\ Len(Writes(p)) <= 2

\* C17 happens: one invocation transcribed, then failed in generation and wrote
\* error; another failed in transcription and wrote error.
C17_Witness ==
    \E p, q \in Procs :
        /\ Accepted(p) /\ pc[p] = "done"
        /\ Logged(p, "transcriptions.create") /\ Logged(p, "generateContent")
        /\ Logged(p, "generateResponse:throw") /\ Logged(p, "set:error")
        /\ Accepted(q) /\ pc[q] = "done"
        /\ Logged(q, "transcriptions.create") /\ Logged(q, "transcribeAudio:throw")
        /\ Logged(q, "set:error")

\* Invocation p applies a write of the given kind in this step: the event is the
\* first the step adds to its log.
Applies(p, event) ==
    /\ Len(log'[p]) > Len(log[p])
    /\ log'[p][Len(log[p]) + 1] = event

\* C18 as stated: the timestamp of a record is its creation time: from the write
\* of pending until the record is deleted no operation (the completed write, the
\* error write, the acknowledgment) changes it.
C18_TimestampSetOnce ==
    [][ \A id \in DOMAIN store \cap DOMAIN store' :
          ( /\ "timestamp" \in DOMAIN store[id]
            /\ \A p \in Procs : ~Applies(p, "set:pending") )
          => /\ "timestamp" \in DOMAIN store'[id]
             /\ store'[id].timestamp = store[id].timestamp ]_vars

\* C18 amended: the timestamp of a record is the time of its last status write:
\* the pending, the completed and the error write each store the clock value
\* the save function read when the write was issued, and the timestamp of a
\* record changes in no other step; the acknowledgment leaves it unchanged.
C18_TimestampOfLastWrite ==
    [][ /\ \A p \in Procs :
             ( Applies(p, "set:pending") \/ Applies(p, "set:completed")
                                         \/ Applies(p, "set:error") )
             => /\ store'[loc[p].request_id].timestamp = loc[p].write.timestamp
                /\ loc[p].write.timestamp \in 1..now
        /\ \A id \in DOMAIN store \cap DOMAIN store' :
             ( /\ "timestamp" \in DOMAIN store[id]
               /\ \A p \in Procs : ~ ( /\ loc[p].request_id = id
                                       /\ \/ Applies(p, "set:pending")
                                          \/ Applies(p, "set:completed")
                                          \/ Applies(p, "set:error") ) )
             => /\ "timestamp" \in DOMAIN store'[id]
                /\ store'[id].timestamp = store[id].timestamp ]_vars

\* C18 happens: a record was completed, its timestamp the time of that write,
\* and acknowledged at a later time without a change of the timestamp.
C18_Witness ==
    \E p, c \in Procs :
        /\ Accepted(p) /\ pc[p] = "done"
        /\ Writes(p) = <<"set:pending", "set:completed">>
        /\ req[c] = ConsumeCall(loc[p].request_id)
        /\ pc[c] = "done" /\ log[c] = <<"update">>
        /\ writer[loc[p].request_id] = c
        /\ store[loc[p].request_id].timestamp = loc[p].write.timestamp
        /\ store[loc[p].request_id].consumedAt > store[loc[p].request_id].timestamp

\* A stored record holds no text: the store keeps no null, so a text written as
\* null is a missing field.
TextIsNull(data) == TextOf(data) \in {JsNull, JsUndefined}

\* C19: in every reachable state of the store a record has a null text exactly
\* when its status is pending, and a record with status completed or error
\* holds a text string.
C19_TextNullIffPending ==
    \A id \in DOMAIN store :
        /\ TextIsNull(store[id]) <=> (StatusOf(store[id]) = "pending")
        /\ StatusOf(store[id]) \in {"completed", "error"}
           => TextOf(store[id]).t = "string"

\* Invocation c is a call of markAsConsumed for id whose update was applied.
Acknowledged(c, id) ==
    req[c] = ConsumeCall(id) /\ pc[c] = "done" /\ log[c] = <<"update">>

\* C20: markAsConsumed on an existing record sets consumed to true and
\* consumedAt to the time of the call and leaves every other field of the
\* record, text, status and timestamp among them, and every other record
\* unchanged, so that a GET is answered as it was before; a GET that arrives
\* while the acknowledgment is the last change of the record reports the
\* stored status and text, and a DELETE that arrives then finds the record,
\* removes it and answers HTTP 200.
C20_ConsumedIsAdvisory ==
    [][ \A c \in Procs :
          /\ ( /\ pc[c] = "idle" /\ pc'[c] = "done"
               /\ req'[c].ep = "consume"
               /\ log'[c] = <<"update">>
               /\ SnapshotExists(store, req'[c].requestId) )
             => LET id == req'[c].requestId
                IN  /\ DOMAIN store' = DOMAIN store
                    /\ \A k \in DOMAIN store \ {id} : store'[k] = store[k]
                    /\ DOMAIN store'[id] = DOMAIN store[id] \cup {"consumed", "consumedAt"}
                    /\ store'[id].consumed = TRUE
                    /\ store'[id].consumedAt = now'
                    /\ \A f \in DOMAIN store[id] \ {"consumed", "consumedAt"} :
                          store'[id][f] = store[id][f]
                    /\ handleGet(id, getResponse(store', id))
                          = handleGet(id, getResponse(store, id))
          /\ \A g \in Procs :
                LET id == loc[c].request_id
                IN  ( /\ Acknowledged(c, id)
                      /\ id \in DOMAIN writer /\ writer[id] = c
                      /\ SnapshotExists(store, id)
                      /\ "status" \in DOMAIN store[id]
                      /\ pc[g] = "idle" /\ pc'[g] = "done"
                      /\ req'[g] = ResponseReq("GET", Str(id))
                      /\ log'[g] = <<"once">> )
                    => /\ resp'[g].code = IF store[id].status = "pending" THEN 202 ELSE 200
                       /\ resp'[g].body.status = store[id].status
                       /\ store[id].status # "pending"
                          => resp'[g].body.text = TextOf(store[id])
          /\ \A d \in Procs :
                LET id == loc[c].request_id
                IN  /\ ( /\ Acknowledged(c, id)
                         /\ id \in DOMAIN writer /\ writer[id] = c
                         /\ SnapshotExists(store, id)
                         /\ pc[d] = "idle" /\ pc'[d] # "idle"
                         /\ req'[d] = ResponseReq("DELETE", Str(id))
                         /\ log'[d] = <<"once">> )
                       => pc'[d] = "removing"
                    /\ ( /\ Acknowledged(c, id)
                         /\ id \in DOMAIN writer /\ writer[id] = c
                         /\ pc[d] = "removing" /\ loc[d].request_id = id
                         /\ log'[d] = <<"once", "remove">> )
                       => /\ resp'[d].code = 200
                          /\ ~SnapshotExists(store', id) ]_vars

\* C20 happens: a completed record was acknowledged, keeping its text, status
\* and timestamp, and a DELETE that arrived afterwards found it and removes it.
C20_Witness ==
    \E p, c, d \in Procs :
        /\ p < c /\ c < d
        /\ Accepted(p) /\ Writes(p) = <<"set:pending", "set:completed">>
        /\ Acknowledged(c, loc[p].request_id)
        /\ writer[loc[p].request_id] = c
        /\ SnapshotExists(store, loc[p].request_id)
        /\ store[loc[p].request_id].consumed = TRUE
        /\ StatusOf(store[loc[p].request_id]) = "completed"
        /\ TextOf(store[loc[p].request_id]) = loc[p].write.text
        /\ store[loc[p].request_id].timestamp = loc[p].write.timestamp
        /\ req[d] = ResponseReq("DELETE", Str(loc[p].request_id))
        /\ pc[d] = "removing"

\* C21: every endpoint (query, binary audio, response, health check) answers a
\* request whose method it does not allow with HTTP 405 without any store or
\* provider operation, and every endpoint sets the permissive cross-origin
\* header on its response.
C21_MethodAndCors ==
    \A p \in Procs :
        (pc[p] = "done" /\ req[p].ep \in {"query", "audio", "response", "health"})
        => /\ "Access-Control-Allow-Origin" \in SetHeaders(req[p].ep)
           /\ req[p].method \notin AllowedMethods(req[p].ep)
              => (resp[p].code = 405 /\ log[p] = << >>)

\* C22: with a required environment variable missing (a database variable, the
\* generation key or the transcription key) no handler invocation writes a
\* record or calls a provider, and none answers HTTP 200 after an error write.
C22_MissingVariableIsFatal ==
    node.env # EnvVars
    => \A p \in Procs :
           /\ Writes(p) = << >>
           /\ ~Logged(p, "generateContent")
           /\ ~Logged(p, "transcriptions.create")
           /\ ~(pc[p] = "done" /\ resp[p].code = 200 /\ Logged(p, "set:error"))

\* The module-level singletons, and the accessor of each.
Singletons == {"database", "model", "groqClient"}
Accessor(k, n) ==
    IF k = "database" THEN getDatabase(n)
    ELSE IF k = "model" THEN getModel(n)
    ELSE getGroqClient(n)

\* C24: over any sequence of handler invocations each singleton is constructed
\* at most once; once it is set it stays the same instance and its accessor
\* returns that instance without constructing; and an access that fails because
\* a variable is missing leaves the singleton null and constructs nothing, so
\* that the next access tries to construct again.
C24_SingletonsConstructedOnce ==
    [][\A k \in Singletons :
          /\ node'.constructed[k] <= 1
          /\ node'[k] \in {0, node'.constructed[k]}
          /\ node[k] # 0
             => /\ node'[k] = node[k]
                /\ Accessor(k, node') = Got(node', node[k])
          /\ node'[k] = 0
             => /\ node'.constructed[k] = node.constructed[k]
                /\ Accessor(k, node').ok
                   => Accessor(k, node').node.constructed[k] = node'.constructed[k] + 1
                /\ ~Accessor(k, node').ok => Accessor(k, node').node = node'
      ]_vars

\* Two invocations have each used the database and the generation model, and one
\* instance of each was constructed.
C24_Witness ==
    \E p, q \in Procs :
        /\ p < q
        /\ \A i \in {p, q} : Logged(i, "set:pending") /\ Logged(i, "getModel")
                              /\ Logged(i, "generateContent")
        /\ node.database = 1 /\ node.constructed.database = 1
        /\ node.model = 1 /\ node.constructed.model = 1

\* C23: the loser of the race between the generation call and the timer is
\* discarded.  A contender that settles after the race was settled changes
\* neither the store nor the invocation's response, position, pending write or
\* log, and the race stays settled by its winner; this holds for the provider's
\* late result after the timeout and for the timer's late firing after the
\* provider's result, whatever the invocation's state at that moment.
C23_LoserDiscarded ==
    [][\A p \in Procs :
          /\ loc[p].race.settled => loc'[p].race.by = loc[p].race.by
          /\ (loc[p].race.settled /\ loc'[p].race.open # loc[p].race.open)
             => /\ store' = store
                /\ resp' = resp
                /\ pc' = pc
                /\ log' = log
                /\ loc'[p].write = loc[p].write
                /\ loc'[p].reply = loc[p].reply
      ]_vars

\* The timer won, the record was written as error with the timeout message and
\* the invocation has answered; the provider's result has arrived since.
C23_Witness ==
    \E p \in Procs :
        /\ pc[p] = "done" /\ resp[p].code = 200
        /\ loc[p].race = [settled |-> TRUE, by |-> "timer", open |-> {}]
        /\ SnapshotExists(store, loc[p].request_id)
        /\ writer[loc[p].request_id] = p
        /\ StatusOf(store[loc[p].request_id]) = "error"
        /\ TextOf(store[loc[p].request_id]) = TimeoutText

\* The query handler's validateRequest accepts the identifier, the text being
\* acceptable, and the text, the identifier being acceptable.
HandlerAcceptsId(v) == validateRequest(Body(v, Str(Hi), JsUndefined)).valid
HandlerAcceptsText(v) == validateRequest(Body(Str(IdA), v, JsUndefined)).valid

\* C25: the validators of utils/validator.js accept exactly what the query
\* handler's validateRequest accepts in text mode: validateRequestId returns
\* valid exactly for a string that itself matches [A-Za-z0-9_-]+ and has 1 to 64
\* characters, and validateQueryText exactly for a string that is not blank and
\* has at most 1000 characters.
C25_ValidatorsAgree ==
    \A p \in Procs :
        (pc[p] = "done" /\ req[p].ep = "validator")
        => IF req[p].fn = "validateRequestId"
           THEN /\ resp[p].body.valid <=> HandlerAcceptsId(req[p].arg)
                /\ resp[p].body.valid
                   <=> (IF req[p].arg.t = "string"
                        THEN /\ TestIdRegex(req[p].arg.s)
                             /\ Len(req[p].arg.s) \in 1..MAX_REQUEST_ID_LENGTH
                        ELSE FALSE)
           ELSE /\ resp[p].body.valid <=> HandlerAcceptsText(req[p].arg)
                /\ resp[p].body.valid
                   <=> (IF req[p].arg.t = "string"
                        THEN /\ Trim(req[p].arg.s) # << >>
                             /\ Len(req[p].arg.s) <= MAX_QUERY_LENGTH
                        ELSE FALSE)

\* C26: generateResponse never returns an empty string.  A record with status
\* completed holds a text that is not empty, and an invocation whose provider
\* response is empty, blank or cleaned to nothing never issues the completed
\* write.
C26_CompletedAnswerNotEmpty ==
    /\ \A id \in DOMAIN store :
           StatusOf(store[id]) = "completed"
           => (TextOf(store[id]).t = "string" /\ TextOf(store[id]).s # << >>)
    /\ \A p \in Procs :
           (loc[p].responseText.t = "string" /\ pc[p] # "generating")
           => (StripMarkdown(loc[p].responseText.s) = << >>
               => ~Logged(p, "set:completed") /\ pc[p] # "completed_write")

\* C27: every record present in the store has a status among pending, completed
\* and error and has a timestamp, after any sequence of the state-store
\* operations, markAsConsumed on an absent or deleted record among them.
C27_RecordsWellFormed ==
    \A id \in DOMAIN store :
        /\ "status" \in DOMAIN store[id]
        /\ StatusOf(store[id]) \in {"pending", "completed", "error"}
        /\ "timestamp" \in DOMAIN store[id]

\* The request identifier an invocation works for, the empty text if it has none.
IdOf(r) ==
    IF r.ep = "query"
        THEN (IF r.body.t = "object" /\ r.body.request_id.t = "string"
              THEN r.body.request_id.s ELSE << >>)
    ELSE IF r.ep = "audio"
        THEN (IF r.headers.xRequestId.t = "string" THEN r.headers.xRequestId.s ELSE << >>)
    ELSE IF r.ep = "response"
        THEN (IF r.query.request_id.t = "string" THEN r.query.request_id.s ELSE << >>)
    ELSE IF r.ep = "consume" THEN r.requestId
    ELSE << >>

\* C28: an invocation for identifier A changes only the record keyed by A.  In
\* every step of an invocation, each record under another identifier B is
\* present afterwards exactly if it was present before, with every field (text,
\* status, timestamp, consumed) unchanged.
C28_OnlyOwnRecord ==
    [][\A p \in Procs :
          pc'[p] # pc[p]
          => \A id \in DOMAIN store \cup DOMAIN store' :
                 id # IdOf(req'[p])
                 => /\ id \in DOMAIN store /\ id \in DOMAIN store'
                    /\ store'[id] = store[id]
      ]_vars

\* Two submit invocations for different identifiers have both answered, and the
\* record of each is as its own invocation wrote it last.
C28_Witness ==
    \E p, q \in Procs :
        /\ p < q /\ pc[p] = "done" /\ pc[q] = "done"
        /\ req[p].ep \in {"query", "audio"} /\ req[q].ep \in {"query", "audio"}
        /\ IdOf(req[p]) # IdOf(req[q])
        /\ \A i \in {p, q} :
               /\ SnapshotExists(store, IdOf(req[i]))
               /\ writer[IdOf(req[i])] = i
               /\ StatusOf(store[IdOf(req[i])]) = loc[i].write.status
               /\ store[IdOf(req[i])].timestamp = loc[i].write.timestamp

\* C29: every submit invocation that passed validation eventually sends its
\* HTTP response, and the record it wrote last is then completed or error,
\* unless a store operation has failed; this also when the transcription
\* provider or the generation provider never responds.
C29_SubmitTerminates ==
    \A p \in Procs :
        Accepted(p)
        ~> \/ failures > 0
           \/ ~getDatabase(node).ok
           \/ /\ pc[p] = "done"
              /\ (SnapshotExists(store, loc[p].request_id)
                  /\ writer[loc[p].request_id] = p)
                 => StatusOf(store[loc[p].request_id]) \in {"completed", "error"}

\* C30: of two DELETE invocations for one identifier that overlap at one
\* existing record at most one answers HTTP 200.  When the first has answered
\* 200, its removal being the last change of the record, the second answers 404.
C30_OneDeleteSucceeds ==
    [][\A d, e \in Procs :
          ( /\ d # e
            /\ req[d].ep = "response" /\ req[d].method = "DELETE"
            /\ req[e] = req[d]
            /\ pc[d] = "done" /\ resp[d].code = 200
            /\ IdOf(req[d]) \in DOMAIN writer
            /\ pc[e] = "removing" /\ pc'[e] = "done" )
          => (writer[IdOf(req[d])] = d => resp'[e].code = 404)
      ]_vars

====
